---------------------------- MODULE Spec2Model ----------------------------
(***************************************************************************)
(* Model of the visualsystem repository: tolerance functions, receptive    *)
(* field geometry, binary cell models, layers and the EyeModelAlpha        *)
(* pipeline.                                                               *)
(*                                                                         *)
(* Numbers.  Thresholds are held as the rationals [n, d] (d > 0, lowest    *)
(* terms) whose nearest binary64 floats the program holds.  Shares and the *)
(* values of the tolerance functions are binary64 floats, computed with    *)
(* the roundings of the source's operations: see the section binary64.     *)
(*                                                                         *)
(* Classes.  structures/ganglions_layer.py builds GanglionBinaryCell and   *)
(* structures/photoreceptors_layer.py builds RodBinaryCell; the cell       *)
(* classes present in cells/ are BipolarBinaryCell and RodBinary, and the  *)
(* layers are modelled with those.                                         *)
(***************************************************************************)
EXTENDS Integers, Sequences, FiniteSets, TLC

VARIABLES
    tol,        \* calls of the tolerance functions: thresholds, last two calls
    cell,       \* one cell on its own: configuration, inputs, response, n_iter
    geo,        \* calls of the receptive field generators
    params,     \* constructor parameters of the pipeline
    source,     \* ImagesGet: images, n_iter, frame; or the MechanicalEye
    rods,       \* RodsBinaryLayer: cells, response grid, input_, n_iter
    ganglions,  \* GanglionsBinaryLayer: on/off cells, response grids, n_iter
    pvc,        \* SimplePVCBinaryLayer: cells and response grid per type, n_iter
    eye,        \* EyeModelAlpha: n_iter
    pc,         \* position of the running sweep; last call on the MechanicalEye
    client      \* the grid a caller of the pipeline's accessors holds

vars == <<tol, cell, geo, params, source, rods, ganglions, pvc, eye, pc, client>>

----------------------------------------------------------------------------
(* Bounds of the model *)

\* denominator of the grid the tolerance-function arguments are drawn from
TolDen == 5
\* denominator of the grid the cell thresholds are drawn from
ThrDen == 4
\* denominator of the grid the thresholds and the input shares of SpecShare
\* are drawn from
ShareDen == 10
\* number of run() calls of an isolated cell
MaxCellRuns == 2
\* radii of center-surround fields range over 0..MaxRadius
MaxRadius == 3
\* sizes of oriented fields range over 1..MaxFieldSize
MaxFieldSize == 7
\* oriented layers are constructed with field sizes 1..MaxBuildSize
MaxBuildSize == 4
\* a caller writes at most MaxWrites times into a grid an accessor returned
MaxWrites == 1
\* coordinates of query positions range over 0..MaxCoord
MaxCoord == 3
\* the leaf layer of the pipeline is FrameSide x FrameSide
FrameSide == 5
\* calls of the pipeline's run()
MaxRuns == 2
\* length of the list of images of the data source
MaxImages == 2
\* the field of view of the mechanical eye has side 1..MaxEyeField
MaxEyeField == 3
\* the images the mechanical eye looks at have sides up to MaxEyeSide
MaxEyeSide == 4
\* each coordinate of a displacement of the eye ranges over -MaxShift..MaxShift
MaxShift == 2

----------------------------------------------------------------------------
(* Exact rational arithmetic *)

Abs(n) == IF n < 0 THEN -n ELSE n

RECURSIVE GCD(_, _)
GCD(a, b) == IF b = 0 THEN a ELSE GCD(b, a % b)

Rat(n, d) ==
    LET g == GCD(Abs(n), Abs(d))
        s == IF d < 0 THEN -1 ELSE 1
    IN  [n |-> (s * n) \div g, d |-> (s * d) \div g]

Zero == Rat(0, 1)
One == Rat(1, 1)
MinusOne == Rat(-1, 1)

\* common factors are taken out before the products are formed: g is the
\* greatest common divisor of the two denominators
RAddOver(a, b, g) ==
    Rat(a.n * (b.d \div g) + b.n * (a.d \div g), (a.d \div g) * b.d)
RAdd(a, b) == RAddOver(a, b, GCD(a.d, b.d))
RNeg(a) == [n |-> -a.n, d |-> a.d]
RSub(a, b) == RAdd(a, RNeg(b))
\* g and h are the greatest common divisors of a.n with b.d and of b.n with
\* a.d: what is left is in lowest terms
RMulOver(a, b, g, h) ==
    [n |-> (a.n \div g) * (b.n \div h), d |-> (a.d \div h) * (b.d \div g)]
RMul(a, b) == RMulOver(a, b, GCD(Abs(a.n), b.d), GCD(Abs(b.n), a.d))
\* b # 0
RDiv(a, b) == RMul(a, IF b.n < 0 THEN [n |-> -b.d, d |-> -b.n] ELSE [n |-> b.d, d |-> b.n])
\* numpy's nan (the mean of an empty list); every comparison with it is false
NaN == [n |-> 0, d |-> 0]
IsNaN(a) == a.d = 0
RLeq(a, b) == ~IsNaN(a) /\ ~IsNaN(b) /\ a.n * b.d <= b.n * a.d
RLt(a, b) == ~IsNaN(a) /\ ~IsNaN(b) /\ a.n * b.d < b.n * a.d
RGeq(a, b) == RLeq(b, a)
RGt(a, b) == RLt(b, a)

Sign(v) == IF v > 0 THEN 1 ELSE IF v < 0 THEN -1 ELSE 0
RSign(a) == Sign(a.n)
\* the largest integer not above a
Floor(a) == IF a.n >= 0 THEN a.n \div a.d ELSE -((a.d - a.n - 1) \div a.d)

\* a * 2^e for an integer e
RECURSIVE RScale(_, _)
RScale(a, e) ==
    IF e = 0 THEN a
    ELSE IF e > 0
    THEN RScale(IF a.d % 2 = 0 THEN [n |-> a.n, d |-> a.d \div 2]
                ELSE [n |-> 2 * a.n, d |-> a.d], e - 1)
    ELSE RScale(IF a.n % 2 = 0 THEN [n |-> a.n \div 2, d |-> a.d]
                ELSE [n |-> a.n, d |-> 2 * a.d], e + 1)

\* h^2 mod d, doubled when odd
Pow2ModStep(h, odd, d) == IF odd THEN (2 * ((h * h) % d)) % d ELSE (h * h) % d
\* 2^k mod d
RECURSIVE Pow2Mod(_, _)
Pow2Mod(k, d) ==
    IF k = 0 THEN 1 % d ELSE Pow2ModStep(Pow2Mod(k \div 2, d), k % 2 = 1, d)

RECURSIVE IsPow2(_)
IsPow2(k) == k = 1 \/ (k > 1 /\ k % 2 = 0 /\ IsPow2(k \div 2))

\* the least k >= from with k * k >= n
RECURSIVE RootFrom(_, _)
RootFrom(n, from) == IF from * from >= n THEN from ELSE RootFrom(n, from + 1)
\* the root of a rational a >= 0 that is a square, a rational above it
\* otherwise
RSqrt(a) == Rat(RootFrom(a.n, 0), RootFrom(a.d, 1))
IsRootOf(s, a) == a.n >= 0 /\ s.n * s.n = a.n /\ s.d * s.d = a.d

----------------------------------------------------------------------------
(* binary64 *)
(* A float is held as [n, d, u, k, np]: the rational n/d it would be were  *)
(* the arithmetic exact, the rational u and the level k with               *)
(*     float = (n/d + u * 2^-53) * 2^(-53 * k).                            *)
(* Zero is n = 0 (u = 0, k = 0; the sign of a zero is not kept), nan is    *)
(* n = d = 0, inf and -inf are n = 1 and n = -1 with d = 0.  The flag np   *)
(* tells a numpy.float64 from a Python float: the two hold the same values *)
(* and differ in what a division by zero and a root of a negative number   *)
(* do.                                                                      *)
(* Every operation forms the exact result of its float operands and rounds *)
(* it to the nearest float, to the one with the even significand when two  *)
(* are equally near (IEEE 754 round-half-to-even, as CPython's float does).*)
(* The exact result is n/d + w * 2^-53 + e with |e| < 2^-90: the order of  *)
(* e decides nothing but exact ties, and its sign t is all that is kept.    *)
(* A result whose n/d is 0 is w * 2^-53 + e, rounded the same way one      *)
(* level up.  The rationals n/d, u are small: 2^-53 of one is below every  *)
(* difference of two of them.                                               *)

Float(r, u) == [n |-> r.n, d |-> r.d, u |-> u, k |-> 0, np |-> FALSE]
Nominal(a) == [n |-> a.n, d |-> a.d]
FlNaN == Float(NaN, Zero)
FlZero == Float(Zero, Zero)
\* inf for s = 1, -inf for s = -1
FlInf(s) == Float([n |-> s, d |-> 0], Zero)
FlIsNaN(a) == a.d = 0 /\ a.n = 0
FlIsInf(a) == a.d = 0 /\ a.n # 0
FlIsZero(a) == a.d # 0 /\ a.n = 0
FlSign(a) == Sign(a.n)
FlNeg(a) == [a EXCEPT !.n = -a.n, !.u = RNeg(a.u)]
\* a * 2^(-53 * k)
Lifted(a, k) == IF a.n = 0 \/ a.d = 0 THEN a ELSE [a EXCEPT !.k = @ + k]
\* the same value as a numpy.float64
float64(a) == [a EXCEPT !.np = TRUE]
\* the result of an operation on a and b is a numpy.float64 when one of them is
Typed(v, a, b) == [v EXCEPT !.np = a.np \/ b.np]

\* the j with 2^-(j+1) <= n/d < 2^-j, for n/d > 0: the floats between these
\* two powers of two are 2^-(53+j) apart
RECURSIVE Binade(_, _)
Binade(n, d) ==
    IF n >= d THEN Binade(n, 2 * d) - 1
    ELSE IF 2 * n < d THEN Binade(2 * n, d) + 1
    ELSE 0

\* the binade of r + w * 2^-53 + e, r > 0: the one below that of r when r is a
\* power of two and the rest is negative
BinadeOf(r, w, t) ==
    IF (r.n = 1 \/ r.d = 1) /\ IsPow2(r.n) /\ IsPow2(r.d)
       /\ (w.n < 0 \/ (w.n = 0 /\ t < 0))
    THEN Binade(r.n, r.d) + 1
    ELSE Binade(r.n, r.d)

\* (n * 2^k) mod d
Remainder(n, d, k) == ((n % d) * Pow2Mod(k, d)) % d

\* the step from Q = floor(r * 2^(53+j)) to the nearest multiple of the
\* spacing: z is the distance of the exact result above Q in spacings, c its
\* floor, odd the parity of Q
RoundStep(z, c, t, odd) ==
    IF 2 * (z.n - c * z.d) < z.d THEN c
    ELSE IF 2 * (z.n - c * z.d) > z.d THEN c + 1
    ELSE IF t < 0 THEN c
    ELSE IF t > 0 THEN c + 1
    ELSE IF (odd + c) % 2 = 0 THEN c
    ELSE c + 1

\* rho: the part of r * 2^(53+j) above Q, in lowest terms
RoundTo(r, j, rho, c) ==
    Float(r, RScale([n |-> c * rho.d - rho.n, d |-> rho.d], -j))
RoundFrom(r, t, j, rho, z, odd) ==
    RoundTo(r, j, rho, RoundStep(z, Floor(z), t, odd))
RoundParity(r, w, t, j, rho, odd) ==
    RoundFrom(r, t, j, rho, RAdd(rho, RScale(w, j)), odd)
\* half: (r.n * 2^(52+j)) mod r.d, which gives the parity of Q and rho
RoundRemainder(r, w, t, j, half) ==
    RoundParity(r, w, t, j, Rat((2 * half) % r.d, r.d), (2 * half) \div r.d)
RoundBinade(r, w, t, j) == RoundRemainder(r, w, t, j, Remainder(r.n, r.d, 52 + j))

\* the float nearest to r + w * 2^-53 + e for r # 0, where t is the sign of
\* e; a rational whose denominator is a power of two is a float (the integers
\* of the model have fewer than 53 bits)
RoundPositive(r, w, t) == RoundBinade(r, w, t, BinadeOf(r, w, t))
\* a for s > 0 and -a for s < 0
WithSign(s, a) == IF s < 0 THEN FlNeg(a) ELSE a
\* a negative result is rounded as its negation is
RoundNonzero(r, w, t) ==
    IF w.n = 0 /\ IsPow2(r.d) THEN Float(r, Zero)
    ELSE WithSign(Sign(r.n),
                  RoundPositive([n |-> Abs(r.n), d |-> r.d],
                                [n |-> Sign(r.n) * w.n, d |-> w.d],
                                Sign(r.n) * t))

\* the float nearest to r + w * 2^-53 + e, where t is the sign of e
Round(r, w, t) ==
    IF r.n = 0 /\ w.n = 0 THEN FlZero
    ELSE Lifted(RoundNonzero(IF r.n # 0 THEN r ELSE w,
                             IF r.n # 0 THEN w ELSE Zero, t),
                IF r.n # 0 THEN 0 ELSE 1)

\* the float a literal or an integer denotes, and the quotient of two integers
FlOf(r) == IF IsNaN(r) THEN FlNaN ELSE Round(r, Zero, 0)
FlOne == FlOf(One)

\* a + b for finite a, b # 0 with a.k <= b.k: a float two levels above another
\* is less than a quarter of the spacing of the floats around that one
AddFinite(a, b) ==
    IF b.k > a.k + 1 THEN a
    ELSE Lifted(Round(IF a.k = b.k THEN RAdd(Nominal(a), Nominal(b)) ELSE Nominal(a),
                      RAdd(a.u, IF a.k = b.k THEN b.u ELSE Nominal(b)),
                      IF a.k = b.k THEN 0 ELSE RSign(b.u)),
                a.k)
\* inf + -inf is nan
FlPlus(a, b) ==
    IF FlIsNaN(a) \/ FlIsNaN(b) THEN FlNaN
    ELSE IF FlIsInf(a) THEN (IF FlIsInf(b) /\ a.n # b.n THEN FlNaN ELSE a)
    ELSE IF FlIsInf(b) \/ a.n = 0 THEN b
    ELSE IF b.n = 0 THEN a
    ELSE AddFinite(IF a.k <= b.k THEN a ELSE b, IF a.k <= b.k THEN b ELSE a)
FlAdd(a, b) == Typed(FlPlus(a, b), a, b)
FlSub(a, b) == FlAdd(a, FlNeg(b))
\* 0 * inf is nan
FlTimes(a, b) ==
    IF FlIsNaN(a) \/ FlIsNaN(b) THEN FlNaN
    ELSE IF FlIsInf(a) \/ FlIsInf(b)
    THEN (IF a.n = 0 \/ b.n = 0 THEN FlNaN ELSE FlInf(Sign(a.n) * Sign(b.n)))
    ELSE Lifted(Round(RMul(Nominal(a), Nominal(b)),
                      RAdd(RMul(Nominal(a), b.u), RMul(Nominal(b), a.u)),
                      RSign(a.u) * RSign(b.u)),
                a.k + b.k)
FlMul(a, b) == Typed(FlTimes(a, b), a, b)
\* the first-order part of the deviation of a / b from its nominal value
FlDivDeviation(a, b) ==
    RDiv(RSub(RMul(a.u, Nominal(b)), RMul(Nominal(a), b.u)),
         RMul(Nominal(b), Nominal(b)))
\* the quotient rounded, dev the first-order part of its deviation
FlDivRound(a, b, dev) ==
    Round(RDiv(Nominal(a), Nominal(b)), dev,
          -RSign(dev) * RSign(b.u) * RSign(Nominal(b)))
\* the IEEE quotient, which numpy returns: x / 0 is inf or -inf, 0 / 0 and
\* inf / inf are nan
FlQuotient(a, b) ==
    IF FlIsNaN(a) \/ FlIsNaN(b) THEN FlNaN
    ELSE IF FlIsInf(a)
    THEN (IF FlIsInf(b) THEN FlNaN ELSE FlInf(IF b.n < 0 THEN -a.n ELSE a.n))
    ELSE IF FlIsInf(b) THEN FlZero
    ELSE IF b.n = 0 THEN (IF a.n = 0 THEN FlNaN ELSE FlInf(Sign(a.n)))
    ELSE IF a.n = 0 THEN FlZero
    ELSE Lifted(FlDivRound(a, b, FlDivDeviation(a, b)), a.k - b.k)
FlDiv(a, b) == Typed(FlQuotient(a, b), a, b)
\* Python raises ZeroDivisionError where two Python numbers are divided and
\* the divisor is zero; a numpy.float64 operand makes the division numpy's
ZeroDivision(a, b) == FlIsZero(b) /\ ~a.np /\ ~b.np
\* a ** 0.5 for a > 0 of an even level whose nominal value is the square of
\* the rational s
FlSqrt(a, s) ==
    Typed(Lifted(Round(s, RDiv(a.u, RMul(Rat(2, 1), s)),
                       IF a.u.n = 0 THEN 0 ELSE -1),
                 a.k \div 2), a, a)

\* a < b for a, b > 0: the float of the higher level is the smaller one
Below(a, b) ==
    IF a.d = 0 THEN FALSE
    ELSE IF b.d = 0 THEN TRUE
    ELSE IF a.k # b.k THEN a.k > b.k
    ELSE \/ RLt(Nominal(a), Nominal(b))
         \/ (Nominal(a) = Nominal(b) /\ RLt(a.u, b.u))
FlLt(a, b) ==
    /\ ~FlIsNaN(a) /\ ~FlIsNaN(b)
    /\ IF FlSign(a) # FlSign(b) THEN FlSign(a) < FlSign(b)
       ELSE IF FlSign(a) > 0 THEN Below(a, b)
       ELSE IF FlSign(a) < 0 THEN Below(FlNeg(b), FlNeg(a))
       ELSE FALSE
FlLeq(a, b) == ~FlIsNaN(a) /\ ~FlIsNaN(b) /\ ~FlLt(b, a)
FlGeq(a, b) == FlLeq(b, a)
FlGt(a, b) == FlLt(b, a)

(* The value of a tolerance function is held as c * r ** 0.5 for two       *)
(* floats c and r.  Where r is the square of a rational the root and the   *)
(* product are rounded as above and the value is a float c (r = 1).        *)
(* Otherwise the root is irrational, or of the order of 2^-27 when r is of *)
(* the order of 2^-53: such a value differs from every share and from      *)
(* every rounded value the model forms by far more than the roundings, and *)
(* c and r decide every comparison the float enters.                        *)
Surd(c, r) == [c |-> c, r |-> r]
OfFl(a) == Surd(a, FlOne)
SSign(v) == FlSign(v.c) * FlSign(v.r)
\* the square of the value is SSq(v) * 2^(-53 * SLevel(v)), up to rounding
SSq(v) == RMul(RMul(Nominal(v.c), Nominal(v.c)), Nominal(v.r))
SLevel(v) == 2 * v.c.k + v.r.k
\* what orders two values of the same sign, level and nominal value: the
\* first-order part of the deviation, of the value for a float and of its
\* square, with the sign of the value, otherwise
SDeviation(v) ==
    IF v.r = FlOne THEN v.c.u
    ELSE RMul(Rat(SSign(v), 1),
              RAdd(RMul(RMul(Rat(2, 1), RMul(Nominal(v.c), v.c.u)), Nominal(v.r)),
                   RMul(RMul(Nominal(v.c), Nominal(v.c)), v.r.u)))
SIsNaN(v) == FlIsNaN(v.c) \/ FlIsNaN(v.r)
SIsInf(v) == FlIsInf(v.c)
SLeq(a, b) ==
    IF SIsNaN(a) \/ SIsNaN(b) THEN FALSE
    ELSE IF SSign(a) # SSign(b) THEN SSign(a) < SSign(b)
    ELSE IF SSign(a) = 0 THEN TRUE
    ELSE IF SIsInf(a) \/ SIsInf(b)
    THEN IF SSign(a) = 1 THEN SIsInf(b) ELSE SIsInf(a)
    ELSE IF SLevel(a) # SLevel(b) THEN (SSign(a) = 1) = (SLevel(a) > SLevel(b))
    ELSE IF SSq(a) # SSq(b)
    THEN IF SSign(a) = 1 THEN RLt(SSq(a), SSq(b)) ELSE RGt(SSq(a), SSq(b))
    ELSE RLeq(SDeviation(a), SDeviation(b))
SLt(a, b) == ~SIsNaN(a) /\ ~SIsNaN(b) /\ ~SLeq(b, a)
SSqrtFrom(a, s) ==
    IF a.n > 0 /\ a.k % 2 = 0 /\ IsRootOf(s, Nominal(a)) THEN OfFl(FlSqrt(a, s))
    ELSE Surd(FlOne, a)
\* a ** 0.5: pow() gives nan for nan and inf for inf and for -inf; numpy
\* gives nan for a finite a < 0, where Python gives a complex number
SSqrt(a) ==
    IF FlIsNaN(a) THEN OfFl(a)
    ELSE IF FlIsInf(a) THEN OfFl(Typed(FlInf(1), a, a))
    ELSE IF a.n = 0 THEN OfFl(a)
    ELSE IF a.n < 0 THEN (IF a.np THEN OfFl(float64(FlNaN)) ELSE Surd(FlOne, a))
    ELSE SSqrtFrom(a, RSqrt(Nominal(a)))
\* c * v for a float c and a root v
SMul(c, v) == IF v.r = FlOne THEN OfFl(FlMul(c, v.c)) ELSE Surd(c, v.r)
\* a negative float to the power 0.5 is a complex number in Python
IsComplex(v) == FlSign(v.r) < 0

----------------------------------------------------------------------------
(* Results of a call: a returned value or a raised exception *)

Return(v) == [exc |-> "none", val |-> v]
Raise(e) == [exc |-> e, val |-> -1]

----------------------------------------------------------------------------
(* cells/_base.py *)

\* y2 / (1 - x1) * x + y2 / (x1 - 1) * x1
tolerance_line_value(x, x1, y2) ==
    FlAdd(FlMul(FlDiv(y2, FlSub(FlOne, x1)), x),
          FlMul(FlDiv(y2, FlSub(x1, FlOne)), x1))

\* x is a Python float or a numpy.float64, x1 and y2 are Python floats: the
\* two quotients are Python's
tolerance_line(x, x1, y2) ==
    IF FlGt(x, x1)
    THEN IF ZeroDivision(y2, FlSub(FlOne, x1)) THEN Raise("ZeroDivisionError")
         ELSE Return(OfFl(tolerance_line_value(x, x1, y2)))
    ELSE Return(OfFl(FlOf(MinusOne)))

FlSquare(a) == FlMul(a, a)
\* (v - 1) ** 2
SquaredDistance(v) == FlSquare(FlSub(v, FlOne))

\* y2 * (1 - (x - c) ** 2 / (x1 - 1) ** 2) ** 0.5 for c = 1
tolerance_ellipse_value(x, x1, y2) ==
    SMul(y2, SSqrt(FlSub(FlOne, FlDiv(SquaredDistance(x), SquaredDistance(x1)))))

\* mutant: the sentinel branch taken for x < x1 only
tolerance_ellipse_geq(x, x1, y2) ==
    IF FlGeq(x, x1)
    THEN IF ZeroDivision(SquaredDistance(x), SquaredDistance(x1))
         THEN Raise("ZeroDivisionError")
         ELSE Return(tolerance_ellipse_value(x, x1, y2))
    ELSE Return(OfFl(FlOf(MinusOne)))

\* mutant: the ellipse centred at x1 instead of 1
tolerance_ellipse_at_x1(x, x1, y2) ==
    IF FlGt(x, x1)
    THEN IF ZeroDivision(SquaredDistance(x), SquaredDistance(x1))
         THEN Raise("ZeroDivisionError")
         ELSE Return(SMul(y2, SSqrt(FlSub(FlOne,
                  FlDiv(FlMul(FlSub(x, x1), FlSub(x, x1)), SquaredDistance(x1))))))
    ELSE Return(OfFl(FlOf(MinusOne)))

\* x is a Python float or a numpy.float64, x1 and y2 are Python floats
tolerance_ellipse(x, x1, y2) ==
    IF FlGt(x, x1)
    THEN IF ZeroDivision(SquaredDistance(x), SquaredDistance(x1))
         THEN Raise("ZeroDivisionError")
         ELSE Return(tolerance_ellipse_value(x, x1, y2))
    ELSE Return(OfFl(FlOf(MinusOne)))

RECURSIVE Sum(_)
Sum(s) == IF Len(s) = 0 THEN 0 ELSE Head(s) + Sum(Tail(s))

\* numpy.mean of a list: a numpy.float64
Mean(s) == float64(IF Len(s) = 0 THEN FlNaN ELSE FlOf(Rat(Sum(s), Len(s))))

\* share <= tolerance, for the result of a call of a tolerance function; the
\* comparison of a float with a complex number raises TypeError
ToleranceTest(share, tolerance_value) ==
    IF tolerance_value.exc # "none" THEN tolerance_value
    ELSE IF IsComplex(tolerance_value.val) THEN Raise("TypeError")
    ELSE Return(IF SLeq(OfFl(share), tolerance_value.val) THEN 1 ELSE 0)

----------------------------------------------------------------------------
(* cells/bipolar.py: BipolarBinaryCell *)

\* mutant: the constant policy's center test strict
BipolarPolicy_strict(center_share, surround_share, tolerance, center_threshold, surround_threshold) ==
    IF tolerance = "constant"
    THEN Return(IF FlGt(center_share, FlOf(center_threshold))
                   /\ FlLeq(surround_share, FlOf(surround_threshold))
                THEN 1 ELSE 0)
    ELSE IF tolerance = "linear"
    THEN ToleranceTest(surround_share,
                       tolerance_line(center_share, FlOf(center_threshold),
                                      FlOf(surround_threshold)))
    ELSE IF tolerance = "elliptical"
    THEN ToleranceTest(surround_share,
                       tolerance_ellipse(center_share, FlOf(center_threshold),
                                         FlOf(surround_threshold)))
    ELSE Raise("UnboundLocalError")

\* lines 119-147: the policy test on the two shares, which are floats; the
\* thresholds are the rationals whose nearest floats the cell holds
BipolarPolicy(center_share, surround_share, tolerance, center_threshold, surround_threshold) ==
    IF tolerance = "constant"
    THEN Return(IF FlGeq(center_share, FlOf(center_threshold))
                   /\ FlLeq(surround_share, FlOf(surround_threshold))
                THEN 1 ELSE 0)
    ELSE IF tolerance = "linear"
    THEN ToleranceTest(surround_share,
                       tolerance_line(center_share, FlOf(center_threshold),
                                      FlOf(surround_threshold)))
    ELSE IF tolerance = "elliptical"
    THEN ToleranceTest(surround_share,
                       tolerance_ellipse(center_share, FlOf(center_threshold),
                                         FlOf(surround_threshold)))
    ELSE Raise("UnboundLocalError")

\* mutant: an off-center cell takes the shares as an on-center cell does
BipolarShares_uncomplemented(center_in, n_center, surround_in, n_surround, center_type) ==
    [center |-> FlOf(Rat(center_in, n_center)),
     surround |-> FlOf(Rat(surround_in, n_surround))]

\* mutant: an off-center cell complements the center share only
BipolarShares_center_only(center_in, n_center, surround_in, n_surround, center_type) ==
    IF center_type = 1
    THEN [center |-> FlOf(Rat(center_in, n_center)),
          surround |-> FlOf(Rat(surround_in, n_surround))]
    ELSE [center |-> FlSub(FlOne, FlOf(Rat(center_in, n_center))),
          surround |-> FlOf(Rat(surround_in, n_surround))]

\* lines 112-117: the shares of a cell of the given center_type
BipolarShares(center_in, n_center, surround_in, n_surround, center_type) ==
    IF center_type = 1
    THEN [center |-> FlOf(Rat(center_in, n_center)),
          surround |-> FlOf(Rat(surround_in, n_surround))]
    ELSE [center |-> FlSub(FlOne, FlOf(Rat(center_in, n_center))),
          surround |-> FlSub(FlOne, FlOf(Rat(surround_in, n_surround)))]

\* center_vals, surround_vals: the responses of the referenced cells
BipolarBinaryCell_calculate_response(center_vals, surround_vals, center_type, tolerance, center_threshold, surround_threshold) ==
    IF Len(center_vals) = 0 \/ Len(surround_vals) = 0
    THEN Raise("ZeroDivisionError")
    ELSE LET sh == BipolarShares(Sum(center_vals), Len(center_vals),
                                 Sum(surround_vals), Len(surround_vals),
                                 center_type)
         IN  BipolarPolicy(sh.center, sh.surround, tolerance,
                           center_threshold, surround_threshold)

----------------------------------------------------------------------------
(* cells/pvc.py: SimplePVCBinaryCell *)

SimplePVCBinaryCell_calculate_response(on_region_inputs, off_region_inputs, regions_tolerance, on_region_threshold, off_region_threshold) ==
    IF regions_tolerance = "constant"
    THEN Return(IF FlGeq(Mean(on_region_inputs), FlOf(on_region_threshold))
                   /\ FlLeq(Mean(off_region_inputs), FlOf(off_region_threshold))
                THEN 1 ELSE 0)
    ELSE IF regions_tolerance = "linear"
    THEN ToleranceTest(Mean(off_region_inputs),
                       tolerance_line(Mean(on_region_inputs),
                                      FlOf(on_region_threshold),
                                      FlOf(off_region_threshold)))
    ELSE IF regions_tolerance = "elliptical"
    THEN ToleranceTest(Mean(off_region_inputs),
                       tolerance_ellipse(Mean(on_region_inputs),
                                         FlOf(on_region_threshold),
                                         FlOf(off_region_threshold)))
    ELSE Raise("UnboundLocalError")

\* the two responses added, for the mutant below
SimplePVCBinaryCell_both_sum(response_1, response_2) ==
    IF response_1.exc # "none" THEN response_1
    ELSE IF response_2.exc # "none" THEN response_2
    ELSE Return(response_1.val + response_2.val)

\* lines 182-191: response_1 * response_2, or the exception of the first of
\* the two calls that raises one
SimplePVCBinaryCell_both(response_1, response_2) ==
    IF response_1.exc # "none" THEN response_1
    ELSE IF response_2.exc # "none" THEN response_2
    ELSE Return(response_1.val * response_2.val)

\* mutant: the two branches of 'both' added instead of multiplied
SimplePVCBinaryCell_response_sum(input_sublayer_type, on_vals, off_vals, regions_tolerance, on_region_threshold, off_region_threshold, old) ==
    IF input_sublayer_type \in {"on-center", "off-center"}
    THEN SimplePVCBinaryCell_calculate_response(
             on_vals, off_vals, regions_tolerance,
             on_region_threshold, off_region_threshold)
    ELSE IF input_sublayer_type = "both"
    THEN SimplePVCBinaryCell_both_sum(
             SimplePVCBinaryCell_calculate_response(
                 on_vals[1], off_vals[1], regions_tolerance,
                 on_region_threshold, off_region_threshold),
             SimplePVCBinaryCell_calculate_response(
                 on_vals[2], off_vals[2], regions_tolerance,
                 on_region_threshold, off_region_threshold))
    ELSE Return(old)

\* the response run() assigns: on_vals and off_vals are the responses of the
\* referenced cells, a pair of lists each when input_sublayer_type is 'both';
\* old is the response before the call
SimplePVCBinaryCell_response(input_sublayer_type, on_vals, off_vals, regions_tolerance, on_region_threshold, off_region_threshold, old) ==
    IF input_sublayer_type \in {"on-center", "off-center"}
    THEN SimplePVCBinaryCell_calculate_response(
             on_vals, off_vals, regions_tolerance,
             on_region_threshold, off_region_threshold)
    ELSE IF input_sublayer_type = "both"
    THEN SimplePVCBinaryCell_both(
             SimplePVCBinaryCell_calculate_response(
                 on_vals[1], off_vals[1], regions_tolerance,
                 on_region_threshold, off_region_threshold),
             SimplePVCBinaryCell_calculate_response(
                 on_vals[2], off_vals[2], regions_tolerance,
                 on_region_threshold, off_region_threshold))
    ELSE Return(old)

----------------------------------------------------------------------------
(* cells/photoreceptors.py: RodBinary *)

\* run(input_): the value of the frame at the cell's position
RodBinary_response(position, input_) == input_[position]

----------------------------------------------------------------------------
(* structures/_base.py: receptive field generators *)

\* the pixels cv2.circle fills (thickness -1, 8-connected line): OpenCV's
\* midpoint loop over (dx, dy), two pairs of horizontal runs per step
RECURSIVE CircleRuns(_, _, _, _, _, _, _)
CircleRuns(cx, cy, dx, dy, err, plus, minus) ==
    IF dx < dy THEN {}
    ELSE LET runs == {<<cy - dy, x>> : x \in (cx - dx)..(cx + dx)}
                     \cup {<<cy + dy, x>> : x \in (cx - dx)..(cx + dx)}
                     \cup {<<cy - dx, x>> : x \in (cx - dy)..(cx + dy)}
                     \cup {<<cy + dx, x>> : x \in (cx - dy)..(cx + dy)}
             err1 == err + plus
             step == err1 > 0
         IN  runs \cup CircleRuns(cx, cy, IF step THEN dx - 1 ELSE dx, dy + 1,
                                  IF step THEN err1 - minus ELSE err1, plus + 2,
                                  IF step THEN minus - 2 ELSE minus)

\* cv2.circle(img, center, radius, color, -1); center is (x, y), img[row, col]
cv2_circle(img, center, radius, color) ==
    LET filled == CircleRuns(center[1], center[2], radius, 0, 0, 1, 2 * radius - 1)
    IN  [p \in DOMAIN img |-> IF p \in filled THEN color ELSE img[p]]

\* the index pairs of an n x n array in the order of "for i: for j:"
RowMajor(n) == [k \in 1..(n * n) |-> <<(k - 1) \div n, (k - 1) % n>>]

\* np.array((i, j)) - np.array(fig_center) + center_position
Shifted(ps, fig_center, center_position) ==
    [k \in DOMAIN ps |-> <<ps[k][1] - fig_center[1] + center_position[1],
                            ps[k][2] - fig_center[2] + center_position[2]>>]

\* mutant: the center disk drawn first and painted over by the surround disk
get_csarf_surround_last(receptive_field_shape, center_position) ==
    LET center_radius == receptive_field_shape[1]
        surround_radius == receptive_field_shape[2]
        fig_center == <<surround_radius, surround_radius>>
        fig_size == 2 * surround_radius + 1
        zeros == [p \in (0..(fig_size - 1)) \X (0..(fig_size - 1)) |-> 0]
        fig_csarf == cv2_circle(cv2_circle(zeros, fig_center, center_radius, 1),
                                fig_center, surround_radius, -1)
    IN  <<Shifted(SelectSeq(RowMajor(fig_size), LAMBDA p : fig_csarf[p] = 1),
                  fig_center, center_position),
          Shifted(SelectSeq(RowMajor(fig_size), LAMBDA p : fig_csarf[p] = -1),
                  fig_center, center_position)>>

\* returns <<center_input_positions, surround_input_positions>>
get_csarf(receptive_field_shape, center_position) ==
    LET center_radius == receptive_field_shape[1]
        surround_radius == receptive_field_shape[2]
        fig_center == <<surround_radius, surround_radius>>
        fig_size == 2 * surround_radius + 1
        zeros == [p \in (0..(fig_size - 1)) \X (0..(fig_size - 1)) |-> 0]
        fig_csarf == cv2_circle(cv2_circle(zeros, fig_center, surround_radius, -1),
                                fig_center, center_radius, 1)
    IN  <<Shifted(SelectSeq(RowMajor(fig_size), LAMBDA p : fig_csarf[p] = 1),
                  fig_center, center_position),
          Shifted(SelectSeq(RowMajor(fig_size), LAMBDA p : fig_csarf[p] = -1),
                  fig_center, center_position)>>

(* k1 = math.tan(math.radians(27)) is the float 0x1.04e0850c1dd5cp-1 and  *)
(* k2 = math.tan(math.radians(62)) the float 0x1.e1774a2562592p+0.  A      *)
(* slope is the quotient of two integers, rounded to the nearest float: it *)
(* is >= k exactly when the exact quotient is above the midpoint of k and  *)
(* the float before it, and <= k exactly when the exact quotient is below  *)
(* the midpoint of k and the float after it.  The midpoints have the       *)
(* denominator 2^54 (k1) and 2^53 (k2), which no quotient of two integers  *)
(* of the model has.  A constant is held as the terms of the continued     *)
(* fractions of its two midpoints, below and above:                         *)
(*     k1: 9178794497915575 / 2^54 and 9178794497915577 / 2^54,            *)
(*     k2: 16940078017039139 / 2^53 and 16940078017039141 / 2^53.          *)
k1 ==
    [below |-> <<0, 1, 1, 25, 1, 2, 1, 13, 12, 1, 1, 1, 1, 3, 7, 1, 5, 1, 1,
               1, 4, 1, 1, 8, 13, 1, 3, 1, 1, 5, 1, 1, 1, 2, 3, 1, 34, 2>>,
     above |-> <<0, 1, 1, 25, 1, 2, 1, 13, 12, 1, 1, 1, 1, 3, 7, 1, 5, 1, 3,
               1, 2, 1, 6, 16, 1, 6, 7, 2, 1, 15, 1, 1, 2, 8, 2>>]
k2 ==
    [below |-> <<1, 1, 7, 2, 1, 1, 1, 1, 10, 1, 1, 1, 3, 3, 1, 22, 2, 1, 12,
               1, 2, 2, 1, 1, 1, 1, 3, 12, 1, 1, 1, 10, 1, 1, 1, 6, 1, 2,
               1, 1, 15>>,
     above |-> <<1, 1, 7, 2, 1, 1, 1, 1, 10, 1, 1, 1, 3, 3, 1, 22, 2, 1, 13,
               2, 1, 2, 2, 1, 2, 1, 5, 1, 10, 1, 30, 1, 15, 4, 1, 7>>]

\* the sign of p/q - x for q > 0, where x is the number whose continued
\* fraction has the terms cf[i], cf[i + 1], ...
RECURSIVE Against(_, _, _, _)
Against(p, q, cf, i) ==
    IF p \div q # cf[i] THEN (IF p \div q < cf[i] THEN -1 ELSE 1)
    ELSE IF i = Len(cf) THEN (IF p % q = 0 THEN 0 ELSE 1)
    ELSE IF p % q = 0 THEN -1
    ELSE -Against(q, p % q, cf, i + 1)

\* a / b for integers a and b # 0, held as p / q with q > 0
Slope(a, b) == IF b < 0 THEN [p |-> -a, q |-> -b] ELSE [p |-> a, q |-> b]
\* slope >= k, slope <= k, slope >= -k and slope <= -k
AtLeast(slope, k) == Against(slope.p, slope.q, k.below, 1) > 0
AtMost(slope, k) == Against(slope.p, slope.q, k.above, 1) < 0
AtLeastMinus(slope, k) == Against(-slope.p, slope.q, k.above, 1) < 0
AtMostMinus(slope, k) == Against(-slope.p, slope.q, k.below, 1) > 0

SIMPLE_PVC_TYPES == <<"vertical", "horizontal", "left_inclined", "right_inclined">>

\* mutant: the inclined bands tested on the size of the slope, its sign lost
RegionOf_unsigned(type_, i, j, center) ==
    LET slope == Slope(center - i, j - center)
        size == Slope(Abs(center - i), Abs(j - center))
    IN  IF type_ = "vertical"
        THEN IF j = center THEN "on"
             ELSE IF AtLeast(slope, k2) \/ AtMostMinus(slope, k2) THEN "on"
             ELSE "off"
        ELSE IF type_ = "horizontal"
        THEN IF j = center THEN (IF i = center THEN "on" ELSE "none")
             ELSE IF AtLeastMinus(slope, k1) /\ AtMost(slope, k1) THEN "on"
             ELSE "off"
        ELSE IF type_ \in {"left_inclined", "right_inclined"}
        THEN IF j = center THEN (IF i = center THEN "on" ELSE "none")
             ELSE IF AtLeast(size, k1) /\ AtMost(size, k2) THEN "on"
             ELSE "off"
        ELSE "none"

\* the region ("on", "off" or "none") the loops put index pair (i, j) in
RegionOf(type_, i, j, center) ==
    LET slope == Slope(center - i, j - center)
    IN  IF type_ = "vertical"
        THEN IF j = center THEN "on"
             ELSE IF AtLeast(slope, k2) \/ AtMostMinus(slope, k2) THEN "on"
             ELSE "off"
        ELSE IF type_ = "horizontal"
        THEN IF j = center THEN (IF i = center THEN "on" ELSE "none")
             ELSE IF AtLeastMinus(slope, k1) /\ AtMost(slope, k1) THEN "on"
             ELSE "off"
        ELSE IF type_ = "left_inclined"
        THEN IF j = center THEN (IF i = center THEN "on" ELSE "none")
             ELSE IF AtLeastMinus(slope, k2) /\ AtMostMinus(slope, k1) THEN "on"
             ELSE "off"
        ELSE IF type_ = "right_inclined"
        THEN IF j = center THEN (IF i = center THEN "on" ELSE "none")
             ELSE IF AtLeast(slope, k1) /\ AtMost(slope, k2) THEN "on"
             ELSE "off"
        ELSE "none"

\* returns <<on_region_input_positions, off_region_input_positions>>; the
\* function has no raise statement and no check of size or type_, and its
\* divisions are reached only with j # center
get_simple_pvc_receptive_field(receptive_field_size, center_position, type_) ==
    LET size == receptive_field_size
        center == size \div 2 + 1
        field_center == <<center, center>>
    IN  <<Shifted(SelectSeq(RowMajor(size),
                            LAMBDA p : RegionOf(type_, p[1], p[2], center) = "on"),
                  field_center, center_position),
          Shifted(SelectSeq(RowMajor(size),
                            LAMBDA p : RegionOf(type_, p[1], p[2], center) = "off"),
                  field_center, center_position)>>

----------------------------------------------------------------------------
(* mediaproc/input.py: ImagesGet *)

None == "None"
Unset == "unset"

\* images: [ndarray |-> TRUE, data |-> one image] or
\*         [ndarray |-> FALSE, data |-> a sequence of images]
NewImagesGet(images) == [images |-> images, n_iter |-> 0, frame |-> Unset]

\* cv2.threshold(frame, thresh=127, maxval=1, type=cv2.THRESH_BINARY)
ImagesGet_binarize_frame(frame) == [p \in DOMAIN frame |-> IF frame[p] > 127 THEN 1 ELSE 0]

\* mutant: at the end of the list the source starts again with its first image
ImagesGet_load_new_frame_restart(src) ==
    LET n == src.n_iter + 1
        len == Len(src.images.data)
        raw == IF src.images.ndarray THEN src.images.data
               ELSE IF n >= len THEN src.images.data[1]
               ELSE src.images.data[n]
    IN  [src EXCEPT !.n_iter = n, !.frame = ImagesGet_binarize_frame(raw)]

\* the list is indexed from 0 in the source and from 1 here
ImagesGet_load_new_frame(src) ==
    LET n == src.n_iter + 1
        len == Len(src.images.data)
        raw == IF src.images.ndarray THEN src.images.data
               ELSE IF n >= len THEN src.images.data[len]
               ELSE src.images.data[n]
    IN  [src EXCEPT !.n_iter = n, !.frame = ImagesGet_binarize_frame(raw)]

----------------------------------------------------------------------------
(* structures: the layers and their construction *)

Positions(shape) == (0..(shape[1] - 1)) \X (0..(shape[2] - 1))
NumCells(shape) == shape[1] * shape[2]
\* the k-th index pair of "for i in range(shape[0]): for j in range(shape[1])"
PositionOf(k, shape) == <<(k - 1) \div shape[2], (k - 1) % shape[2]>>

\* np.empty(shape, dtype=np.int8) reserves the entries and writes none of
\* them: until a run() of the layer stores a response in it, an entry holds
\* what the memory held, which is any int8, whatever the other entries of the
\* array and the entries of the other arrays hold.  Unwritten, which is no
\* int8, stands in the array for such an entry, and Held gives the values an
\* entry may hold: every int8 for an entry not written, its value for a
\* written one.  Unwritten equals no int8, so an equation between an entry
\* and a value holds of a written entry only
Unwritten == 128
Held(v) == IF v = Unwritten THEN -128..127 ELSE {v}
\* every value the entry may hold is in S
HoldsOnly(v, S) == Held(v) \subseteq S
Empty(shape) == [p \in Positions(shape) |-> Unwritten]

\* list indexing: a negative index counts from the end
PyIndex(k, n) == IF k < 0 THEN k + n ELSE k
\* the cells input_cells[row][column] for the (row, column) of positions
CellsAt(positions, shape) == [k \in DOMAIN positions |-> <<PyIndex(positions[k][1], shape[1]), PyIndex(positions[k][2], shape[2])>>]

NewRodBinaryCell(position, n_iter) == [position |-> position, n_iter |-> n_iter, response |-> 0]

NewRodsBinaryLayer(shape) ==
    [shape |-> shape, n_iter |-> 0, input_ |-> None,
     response |-> Empty(shape),
     cells |-> [p \in Positions(shape) |-> NewRodBinaryCell(p, 0)]]

NewGanglionBinaryCell(position, center_type, center_input, surround_input, center_surround_tolerance, center_threshold, surround_threshold, n_iter) ==
    [position |-> position, center_type |-> center_type,
     center_input |-> center_input, surround_input |-> surround_input,
     tolerance |-> center_surround_tolerance,
     center_threshold |-> center_threshold,
     surround_threshold |-> surround_threshold,
     response |-> 0, n_iter |-> n_iter]

\* mutant: the field centred on the cell's own position
GanglionsBinaryLayer_input_positions_unshifted(p, receptive_field_shape) ==
    get_csarf(receptive_field_shape, p)

\* center_position = (i, j) + surround_radius and the get_csarf call of
\* GanglionsBinaryLayer._create_cells for the cell at p = (i, j)
GanglionsBinaryLayer_input_positions(p, receptive_field_shape) ==
    get_csarf(receptive_field_shape,
              <<p[1] + receptive_field_shape[2], p[2] + receptive_field_shape[2]>>)

\* one cell of GanglionsBinaryLayer._create_cells
GanglionsBinaryLayer_create_cell(p, center_type, previous_shape, receptive_field_shape, center_surround_tolerance, center_threshold, surround_threshold) ==
    LET csarf == GanglionsBinaryLayer_input_positions(p, receptive_field_shape)
    IN  NewGanglionBinaryCell(p, center_type,
                              CellsAt(csarf[1], previous_shape),
                              CellsAt(csarf[2], previous_shape),
                              center_surround_tolerance, center_threshold,
                              surround_threshold, 0)

\* np.array(previous_layer.shape) - np.full(2, 2 * surround_radius)
GanglionsBinaryLayer_shape(previous_shape, receptive_field_shape) ==
    <<previous_shape[1] - 2 * receptive_field_shape[2],
      previous_shape[2] - 2 * receptive_field_shape[2]>>

NewGanglionsBinaryLayer(previous_shape, receptive_field_shape, center_surround_tolerance, center_threshold, surround_threshold) ==
    LET shape == GanglionsBinaryLayer_shape(previous_shape, receptive_field_shape)
    IN  [receptive_field_shape |-> receptive_field_shape,
         shape |-> shape, n_iter |-> 0, input_ |-> None,
         response |-> <<Empty(shape), Empty(shape)>>,
         on_cells |-> [p \in Positions(shape) |->
             GanglionsBinaryLayer_create_cell(p, 1, previous_shape,
                 receptive_field_shape, center_surround_tolerance,
                 center_threshold, surround_threshold)],
         off_cells |-> [p \in Positions(shape) |->
             GanglionsBinaryLayer_create_cell(p, -1, previous_shape,
                 receptive_field_shape, center_surround_tolerance,
                 center_threshold, surround_threshold)]]

PVCTypes == {SIMPLE_PVC_TYPES[k] : k \in DOMAIN SIMPLE_PVC_TYPES}
\* center_position = (i, j) + receptive_field_size // 2 and the
\* get_simple_pvc_receptive_field call of SimplePVCBinaryLayer._create_cells
SimplePVCBinaryLayer_input_positions(p, receptive_field_size, type_) ==
    get_simple_pvc_receptive_field(receptive_field_size,
        <<p[1] + receptive_field_size \div 2, p[2] + receptive_field_size \div 2>>,
        type_)

\* one cell of SimplePVCBinaryLayer._create_cells; in 'both' mode the cell
\* holds the same positions twice, read from on_cells and from off_cells
SimplePVCBinaryLayer_create_cell(p, type_, previous_shape, receptive_field_size, input_sublayer_type, regions_tolerance, on_region_threshold, off_region_threshold) ==
    LET field == SimplePVCBinaryLayer_input_positions(p, receptive_field_size, type_)
    IN  [position |-> p, input_sublayer_type |-> input_sublayer_type,
         on_region_input |-> CellsAt(field[1], previous_shape),
         off_region_input |-> CellsAt(field[2], previous_shape),
         regions_tolerance |-> regions_tolerance,
         on_region_threshold |-> on_region_threshold,
         off_region_threshold |-> off_region_threshold,
         response |-> 0, n_iter |-> 0]

\* np.array(previous_layer.shape) - np.full(2, receptive_field_size - 1)
SimplePVCBinaryLayer_shape(previous_shape, receptive_field_size) ==
    <<previous_shape[1] - (receptive_field_size - 1),
      previous_shape[2] - (receptive_field_size - 1)>>

NewSimplePVCBinaryLayer(previous_shape, receptive_field_size, input_sublayer_type, regions_tolerance, on_region_threshold, off_region_threshold) ==
    LET shape == SimplePVCBinaryLayer_shape(previous_shape, receptive_field_size)
    IN  [receptive_field_size |-> receptive_field_size,
         input_sublayer_type |-> input_sublayer_type,
         shape |-> shape, n_iter |-> 0, input_ |-> None,
         response |-> [type_ \in PVCTypes |-> Empty(shape)],
         cells |-> [type_ \in PVCTypes |-> [p \in Positions(shape) |->
             SimplePVCBinaryLayer_create_cell(p, type_, previous_shape,
                 receptive_field_size, input_sublayer_type,
                 regions_tolerance, on_region_threshold,
                 off_region_threshold)]]]

\* np.empty and range() on a computed shape: a negative extent is refused
Negative(shape) == shape[1] < 0 \/ shape[2] < 0

\* GanglionsBinaryLayer(previous_layer, receptive_field_shape, ...): the
\* layer, or the exception that leaves __init__
GanglionsBinaryLayer_init(previous_shape, receptive_field_shape, center_surround_tolerance, center_threshold, surround_threshold) ==
    IF Negative(GanglionsBinaryLayer_shape(previous_shape, receptive_field_shape))
    THEN Raise("ValueError")
    ELSE Return(NewGanglionsBinaryLayer(previous_shape, receptive_field_shape,
                    center_surround_tolerance, center_threshold,
                    surround_threshold))

\* SimplePVCBinaryLayer(previous_layer, receptive_field_size, ...): with an
\* input_sublayer_type outside the three tags no branch of _create_cells
\* binds on_region_input, which the first cell's constructor call then reads
SimplePVCBinaryLayer_init(previous_shape, receptive_field_size, input_sublayer_type, regions_tolerance, on_region_threshold, off_region_threshold) ==
    IF Negative(SimplePVCBinaryLayer_shape(previous_shape, receptive_field_size))
    THEN Raise("ValueError")
    ELSE IF /\ input_sublayer_type \notin {"on-center", "off-center", "both"}
            /\ NumCells(SimplePVCBinaryLayer_shape(previous_shape, receptive_field_size)) > 0
    THEN Raise("UnboundLocalError")
    ELSE Return(NewSimplePVCBinaryLayer(previous_shape, receptive_field_size,
                    input_sublayer_type, regions_tolerance,
                    on_region_threshold, off_region_threshold))

----------------------------------------------------------------------------
(* One cell of a layer's run(): the cell runs, its response is stored *)

\* [cell.response for cell in refs]
Responses(refs, cells) == [k \in DOMAIN refs |-> cells[refs[k]].response]

RodBinaryCell_step(c, input_) ==
    IF c.position \in DOMAIN input_
    THEN Return([c EXCEPT !.response = input_[c.position], !.n_iter = @ + 1])
    ELSE Raise("IndexError")

\* self.response[i][j] = self.cells[i][j].response, r the outcome of run()
RodsBinaryLayer_store(layer, p, r) ==
    IF r.exc # "none" THEN r
    ELSE Return([layer EXCEPT !.cells[p] = r.val,
                              !.response[p] = r.val.response])

RodsBinaryLayer_run_cell(layer, p) ==
    RodsBinaryLayer_store(layer, p, RodBinaryCell_step(layer.cells[p], layer.input_))

\* mutant: the input lists are used up by the pass that reads them
CellRan_inputs_consumed(c, r) ==
    IF r.exc # "none" THEN r
    ELSE Return([c EXCEPT !.response = r.val, !.n_iter = @ + 1,
                          !.center_input = <<>>, !.surround_input = <<>>])

\* self.response = r; self.n_iter += 1, r the outcome of the calculation
CellRan(c, r) ==
    IF r.exc # "none" THEN r
    ELSE Return([c EXCEPT !.response = r.val, !.n_iter = @ + 1])

GanglionBinaryCell_step(c, input_cells) ==
    CellRan(c, BipolarBinaryCell_calculate_response(
                   Responses(c.center_input, input_cells),
                   Responses(c.surround_input, input_cells),
                   c.center_type, c.tolerance, c.center_threshold,
                   c.surround_threshold))

\* mutant: the on-center cell's response is written into the off-center grid
GanglionsBinaryLayer_store_on_other_grid(layer, p, r) ==
    IF r.exc # "none" THEN r
    ELSE Return([layer EXCEPT !.on_cells[p] = r.val,
                              !.response[2][p] = r.val.response])

\* self.response[0][i][j] = self.on_cells[i][j].response
GanglionsBinaryLayer_store_on(layer, p, r) ==
    IF r.exc # "none" THEN r
    ELSE Return([layer EXCEPT !.on_cells[p] = r.val,
                              !.response[1][p] = r.val.response])

\* mutant: the off cell's response taken as the complement of the on cell's
GanglionsBinaryLayer_store_off_complement(layer, p, r) ==
    IF r.exc # "none" THEN r
    ELSE Return([layer EXCEPT !.off_cells[p] = [r.val EXCEPT !.response = 1 - layer.on_cells[p].response],
                              !.response[2][p] = 1 - layer.on_cells[p].response])

\* self.response[1][i][j] = self.off_cells[i][j].response
GanglionsBinaryLayer_store_off(layer, p, r) ==
    IF r.exc # "none" THEN r
    ELSE Return([layer EXCEPT !.off_cells[p] = r.val,
                              !.response[2][p] = r.val.response])

GanglionsBinaryLayer_run_on_cell(layer, input_cells, p) ==
    GanglionsBinaryLayer_store_on(layer, p, GanglionBinaryCell_step(layer.on_cells[p], input_cells))

GanglionsBinaryLayer_run_off_cell(layer, input_cells, p) ==
    GanglionsBinaryLayer_store_off(layer, p, GanglionBinaryCell_step(layer.off_cells[p], input_cells))

\* mutant: in 'both' mode the second branch reads the on-center cells again
PVCInputs_on_twice(input_sublayer_type, refs, on_cells, off_cells) ==
    IF input_sublayer_type = "on-center" THEN Responses(refs, on_cells)
    ELSE IF input_sublayer_type = "off-center" THEN Responses(refs, off_cells)
    ELSE <<Responses(refs, on_cells), Responses(refs, on_cells)>>

\* the lists run() reads for a cell wired to the given sub-layer(s)
PVCInputs(input_sublayer_type, refs, on_cells, off_cells) ==
    IF input_sublayer_type = "on-center" THEN Responses(refs, on_cells)
    ELSE IF input_sublayer_type = "off-center" THEN Responses(refs, off_cells)
    ELSE <<Responses(refs, on_cells), Responses(refs, off_cells)>>

\* mutant: a cell fed by both sub-layers does not count its run
SimplePVCBinaryCell_ran_uncounted(c, r) ==
    IF r.exc # "none" THEN r
    ELSE IF c.input_sublayer_type = "both"
    THEN Return([c EXCEPT !.response = r.val])
    ELSE Return([c EXCEPT !.response = r.val, !.n_iter = @ + 1])

\* pvc.py run(): self.response = ...; self.n_iter += 1
SimplePVCBinaryCell_ran(c, r) ==
    IF r.exc # "none" THEN r
    ELSE Return([c EXCEPT !.response = r.val, !.n_iter = @ + 1])

SimplePVCBinaryCell_step(c, on_cells, off_cells) ==
    SimplePVCBinaryCell_ran(c, SimplePVCBinaryCell_response(
        c.input_sublayer_type,
        PVCInputs(c.input_sublayer_type, c.on_region_input, on_cells, off_cells),
        PVCInputs(c.input_sublayer_type, c.off_region_input, on_cells, off_cells),
        c.regions_tolerance, c.on_region_threshold,
        c.off_region_threshold, c.response))

\* self.response[type_][i][j] = self.cells[type_][i][j].response
SimplePVCBinaryLayer_store(layer, type_, p, r) ==
    IF r.exc # "none" THEN r
    ELSE Return([layer EXCEPT !.cells[type_][p] = r.val,
                              !.response[type_][p] = r.val.response])

SimplePVCBinaryLayer_run_cell(layer, on_cells, off_cells, type_, p) ==
    SimplePVCBinaryLayer_store(layer, type_, p, SimplePVCBinaryCell_step(layer.cells[type_][p], on_cells, off_cells))

----------------------------------------------------------------------------
(* Calls of the tolerance functions on a grid of arguments *)

TolGrid == {Rat(k, TolDen) : k \in 0..TolDen}

NoCall == [fn |-> "none"]
Called(c) == c.fn # "none"
TolIdle == [x1 |-> Zero, y2 |-> Zero, cur |-> NoCall, prev |-> NoCall]

CallToleranceLine(x) ==
    /\ tol' = [tol EXCEPT !.prev = tol.cur,
                          !.cur = [fn |-> "line", x |-> x,
                                   ret |-> tolerance_line(FlOf(x), FlOf(tol.x1),
                                                         FlOf(tol.y2))]]
    /\ UNCHANGED <<cell, geo, params, source, rods, ganglions, pvc, eye, pc, client>>

CallToleranceEllipse(x) ==
    /\ tol' = [tol EXCEPT !.prev = tol.cur,
                          !.cur = [fn |-> "ellipse", x |-> x,
                                   ret |-> tolerance_ellipse(FlOf(x), FlOf(tol.x1),
                                                            FlOf(tol.y2))]]
    /\ UNCHANGED <<cell, geo, params, source, rods, ganglions, pvc, eye, pc, client>>

----------------------------------------------------------------------------
(* Calls of the tolerance functions on the shares a cell passes them *)

ShareGrid == {Rat(k, ShareDen) : k \in 0..ShareDen}
\* the shares BipolarBinaryCell._calculate_response forms (bipolar.py
\* 113-117): the quotient of a sum and a length, and for an off-center cell
\* 1 - the quotient
Shares ==
    {FlOf(g) : g \in ShareGrid} \cup {FlSub(FlOne, FlOf(g)) : g \in ShareGrid}

\* the first call is on any share, the calls after it are on the same share
SameShare(s) == Called(tol.cur) => tol.cur.share = s

ToleranceLineOnShare(s) ==
    /\ SameShare(s)
    /\ tol' = [tol EXCEPT !.prev = tol.cur,
                          !.cur = [fn |-> "line", share |-> s,
                                   ret |-> tolerance_line(s, FlOf(tol.x1),
                                                         FlOf(tol.y2))]]
    /\ UNCHANGED <<cell, geo, params, source, rods, ganglions, pvc, eye, pc, client>>

ToleranceEllipseOnShare(s) ==
    /\ SameShare(s)
    /\ tol' = [tol EXCEPT !.prev = tol.cur,
                          !.cur = [fn |-> "ellipse", share |-> s,
                                   ret |-> tolerance_ellipse(s, FlOf(tol.x1),
                                                            FlOf(tol.y2))]]
    /\ UNCHANGED <<cell, geo, params, source, rods, ganglions, pvc, eye, pc, client>>

----------------------------------------------------------------------------
(* One cell on its own: the cells it references are their current responses *)

default_center_threshold == Rat(4, 5)
default_surround_threshold == Rat(1, 5)

Thresholds == {Rat(k, ThrDen) : k \in 0..ThrDen}
CenterThresholds == Thresholds \cup {default_center_threshold}
SurroundThresholds == Thresholds \cup {default_surround_threshold}

Tolerances == {"constant", "linear", "elliptical"}
PolicyTags == Tolerances \cup {"quadratic"}
SublayerTypes == {"on-center", "off-center", "both"}

\* lists of n responses, k of them 1
Ones(n, k) == [i \in 1..n |-> IF i <= k THEN 1 ELSE 0]
Lists(n) == {Ones(n, k) : k \in 0..n}

CenterLens == {0, 5}
SurroundLens == {0, 10}
OnRegionLens == {0, 2}
OffRegionLens == {0, 2}

RodPositions == (0..1) \X (0..1)
RodFrames == [RodPositions -> {0, 1}]

CellIdle == [kind |-> "none"]

NewBipolarBinaryCell(center_input, surround_input, center_type, tolerance, center_threshold, surround_threshold) ==
    [kind |-> "bipolar", center_type |-> center_type,
     center_input |-> center_input, surround_input |-> surround_input,
     tolerance |-> tolerance, center_threshold |-> center_threshold,
     surround_threshold |-> surround_threshold,
     response |-> 0, n_iter |-> 0, exc |-> "none", ran |-> FALSE]

NewSimplePVCBinaryCell(input_sublayer_type, on_region_input, off_region_input, regions_tolerance, on_region_threshold, off_region_threshold) ==
    [kind |-> "pvc", input_sublayer_type |-> input_sublayer_type,
     on_region_input |-> on_region_input,
     off_region_input |-> off_region_input,
     regions_tolerance |-> regions_tolerance,
     on_region_threshold |-> on_region_threshold,
     off_region_threshold |-> off_region_threshold,
     response |-> 0, n_iter |-> 0, exc |-> "none", ran |-> FALSE]

NewRodBinary(position) ==
    [kind |-> "rod", position |-> position, input_ |-> << >>,
     response |-> 0, n_iter |-> 0, exc |-> "none", ran |-> FALSE]

\* the thresholds a cell with the given policy tag is built with
CenterThresholdsOf(tag) ==
    IF tag \in Tolerances THEN CenterThresholds ELSE {default_center_threshold}
SurroundThresholdsOf(tag) ==
    IF tag \in Tolerances THEN SurroundThresholds ELSE {default_surround_threshold}

\* right after construction every referenced cell has response 0
BipolarCells ==
    UNION {{NewBipolarBinaryCell(Ones(nc, 0), Ones(ns, 0), t, tg, ct, st) :
               nc \in CenterLens, ns \in SurroundLens, t \in {1, -1},
               ct \in CenterThresholdsOf(tg), st \in SurroundThresholdsOf(tg)} :
           tg \in PolicyTags}

PVCListsOf(ty, n) == IF ty = "both" THEN <<Ones(n, 0), Ones(n, 0)>> ELSE Ones(n, 0)

PVCCells ==
    UNION {{NewSimplePVCBinaryCell(ty, PVCListsOf(ty, non), PVCListsOf(ty, noff),
                                   tg, ot, ft) :
               ty \in SublayerTypes \cup {"neither"},
               non \in OnRegionLens, noff \in OffRegionLens,
               ot \in IF tg \in Tolerances THEN Thresholds ELSE {One},
               ft \in IF tg \in Tolerances THEN Thresholds ELSE {Zero}} :
           tg \in PolicyTags}

RodCells == {NewRodBinary(p) : p \in RodPositions}

GeoIdle == [op |-> "none"]
Off == "off"

\* the variables a specification does not use
NoTol == tol = TolIdle
NoCell == cell = CellIdle
NoGeo == geo = GeoIdle
NoNet ==
    /\ params = Off /\ source = Off /\ rods = Off /\ ganglions = Off
    /\ pvc = Off /\ eye = Off /\ pc = Off /\ client = Off
netvars == <<params, source, rods, ganglions, pvc, eye, pc, client>>

BipolarBinaryCell_run ==
    /\ cell.kind = "bipolar"
    /\ cell.n_iter < MaxCellRuns
    /\ LET r == BipolarBinaryCell_calculate_response(
                    cell.center_input, cell.surround_input, cell.center_type,
                    cell.tolerance, cell.center_threshold,
                    cell.surround_threshold)
       IN  cell' = IF r.exc # "none"
                   THEN [cell EXCEPT !.exc = r.exc, !.ran = FALSE]
                   ELSE [cell EXCEPT !.response = r.val, !.n_iter = @ + 1,
                                     !.exc = "none", !.ran = TRUE]
    /\ UNCHANGED <<tol, geo, netvars>>

SimplePVCBinaryCell_run ==
    /\ cell.kind = "pvc"
    /\ cell.n_iter < MaxCellRuns
    /\ LET r == SimplePVCBinaryCell_response(
                    cell.input_sublayer_type, cell.on_region_input,
                    cell.off_region_input, cell.regions_tolerance,
                    cell.on_region_threshold, cell.off_region_threshold,
                    cell.response)
       IN  cell' = IF r.exc # "none"
                   THEN [cell EXCEPT !.exc = r.exc, !.ran = FALSE]
                   ELSE [cell EXCEPT !.response = r.val, !.n_iter = @ + 1,
                                     !.exc = "none", !.ran = TRUE]
    /\ UNCHANGED <<tol, geo, netvars>>

RodBinary_run(input_) ==
    /\ cell.kind = "rod"
    /\ cell.n_iter < MaxCellRuns
    /\ cell' = [cell EXCEPT !.response = RodBinary_response(cell.position, input_),
                            !.input_ = input_,
                            !.n_iter = @ + 1, !.ran = TRUE]
    /\ UNCHANGED <<tol, geo, netvars>>

\* the referenced cells run: one more or one fewer of a list's cells is 1,
\* the references do not change
Stepped(vals) ==
    {Ones(Len(vals), k) : k \in {Sum(vals) - 1, Sum(vals) + 1} \cap 0..Len(vals)}

BipolarInputsChange ==
    /\ cell.kind = "bipolar"
    /\ \/ \E c \in Stepped(cell.center_input) :
            cell' = [cell EXCEPT !.center_input = c, !.ran = FALSE]
       \/ \E s \in Stepped(cell.surround_input) :
            cell' = [cell EXCEPT !.surround_input = s, !.ran = FALSE]
    /\ UNCHANGED <<tol, geo, netvars>>

PVCInputsChange ==
    /\ cell.kind = "pvc"
    /\ IF cell.input_sublayer_type = "both"
       THEN \E b \in 1..2 :
              \/ \E on \in Stepped(cell.on_region_input[b]) :
                   cell' = [cell EXCEPT !.on_region_input[b] = on,
                                        !.ran = FALSE]
              \/ \E off \in Stepped(cell.off_region_input[b]) :
                   cell' = [cell EXCEPT !.off_region_input[b] = off,
                                        !.ran = FALSE]
       ELSE \/ \E on \in Stepped(cell.on_region_input) :
                 cell' = [cell EXCEPT !.on_region_input = on, !.ran = FALSE]
            \/ \E off \in Stepped(cell.off_region_input) :
                 cell' = [cell EXCEPT !.off_region_input = off, !.ran = FALSE]
    /\ UNCHANGED <<tol, geo, netvars>>

InitCell ==
    /\ cell \in BipolarCells \cup PVCCells \cup RodCells
    /\ NoTol /\ NoGeo /\ NoNet

NextCell ==
    \/ BipolarBinaryCell_run
    \/ SimplePVCBinaryCell_run
    \/ \E input_ \in RodFrames : RodBinary_run(input_)
    \/ BipolarInputsChange
    \/ PVCInputsChange

SpecCell == InitCell /\ [][NextCell]_vars

InitTol ==
    /\ tol \in {[x1 |-> x1, y2 |-> y2, cur |-> NoCall, prev |-> NoCall] :
                    x1 \in TolGrid, y2 \in TolGrid}
    /\ NoCell /\ NoGeo /\ NoNet

NextTol ==
    \/ \E x \in TolGrid : CallToleranceLine(x)
    \/ \E x \in TolGrid : CallToleranceEllipse(x)

SpecTol == InitTol /\ [][NextTol]_vars

InitShare ==
    /\ tol \in {[x1 |-> x1, y2 |-> y2, cur |-> NoCall, prev |-> NoCall] :
                    x1 \in ShareGrid, y2 \in ShareGrid}
    /\ NoCell /\ NoGeo /\ NoNet

NextShare ==
    \/ \E s \in Shares : ToleranceLineOnShare(s)
    \/ \E s \in Shares : ToleranceEllipseOnShare(s)

SpecShare == InitShare /\ [][NextShare]_vars

----------------------------------------------------------------------------
(* Calls of the receptive field generators *)

Radii == 0..MaxRadius
FieldSizes == 1..MaxFieldSize
QueryPositions == (0..MaxCoord) \X (0..MaxCoord)
FieldTypes == {SIMPLE_PVC_TYPES[k] : k \in DOMAIN SIMPLE_PVC_TYPES} \cup {"diagonal"}

Pending == "pending"

CsarfCalls == {[op |-> "get_csarf", receptive_field_shape |-> <<rc, rs>>, center_position |-> p, ret |-> Pending, exc |-> Pending] : rc \in Radii, rs \in Radii, p \in QueryPositions}

OrientedFieldCalls == {[op |-> "get_simple_pvc_receptive_field", receptive_field_size |-> size, center_position |-> p, type_ |-> ty, ret |-> Pending, exc |-> Pending] : size \in FieldSizes, p \in QueryPositions, ty \in FieldTypes}

Call_get_csarf ==
    /\ geo.op = "get_csarf" /\ geo.ret = Pending
    /\ geo' = [geo EXCEPT !.ret = get_csarf(geo.receptive_field_shape,
                                            geo.center_position),
                          !.exc = "none"]
    /\ UNCHANGED <<tol, cell, netvars>>

Call_get_simple_pvc_receptive_field ==
    /\ geo.op = "get_simple_pvc_receptive_field" /\ geo.ret = Pending
    /\ geo' = [geo EXCEPT !.ret = get_simple_pvc_receptive_field(
                                      geo.receptive_field_size,
                                      geo.center_position, geo.type_),
                          !.exc = "none"]
    /\ UNCHANGED <<tol, cell, netvars>>

InitGeo ==
    /\ geo \in CsarfCalls \cup OrientedFieldCalls
    /\ NoTol /\ NoCell /\ NoNet

NextGeo ==
    \/ Call_get_csarf
    \/ Call_get_simple_pvc_receptive_field

SpecGeo == InitGeo /\ [][NextGeo]_vars

----------------------------------------------------------------------------
(* mediaproc/input.py: MechanicalEye; color_image and image_n_frame, the *)
(* picture of the field of view drawn for display, are left out            *)

\* cv2.threshold(img, thresh=127, maxval=maxval, type=cv2.THRESH_BINARY)
MechanicalEye_binarize_img(img, maxval) == [p \in DOMAIN img |-> IF img[p] > 127 THEN maxval ELSE 0]
\* image.astype(dtype=np.uint8) of an array of integers: the low eight bits
astype_uint8(img) == [p \in DOMAIN img |-> img[p] % 256]

\* the bounds of the slice start:stop of an axis of length n
PySlice(start, stop, n) ==
    LET from == IF start < 0 THEN (IF start + n < 0 THEN 0 ELSE start + n)
                ELSE IF start > n THEN n ELSE start
        to == IF stop < 0 THEN (IF stop + n < 0 THEN 0 ELSE stop + n)
              ELSE IF stop > n THEN n ELSE stop
    IN  <<from, IF to < from THEN from ELSE to>>

\* self.frame = self.image[point1[0]:point2[0] + 1, point1[1]:point2[1] + 1]
MechanicalEye_update_frame(e) ==
    LET rows == PySlice(e.point1[1], e.point2[1] + 1, e.shape[1])
        cols == PySlice(e.point1[2], e.point2[2] + 1, e.shape[2])
    IN  [e EXCEPT !.frame = [q \in Positions(<<rows[2] - rows[1], cols[2] - cols[1]>>) |->
                                 e.image[<<rows[1] + q[1], cols[1] + q[2]>>]]]

MechanicalEye_move_initial(e) ==
    MechanicalEye_update_frame(
        [e EXCEPT !.bound_reached = FALSE,
                  !.center_position = <<e.field_size \div 2, e.field_size \div 2>>,
                  !.point1 = <<0, 0>>,
                  !.point2 = <<e.field_size - 1, e.field_size - 1>>])

\* MechanicalEye(image, field_size), shape the image's shape: the border rows
\* for color_image are built np.zeros((1, shape[0])) wide and are joined to
\* the image along axis 0, which numpy refuses unless shape[0] = shape[1]
MechanicalEye_init(image, shape, field_size) ==
    IF shape[1] # shape[2] THEN Raise("ValueError")
    ELSE Return(MechanicalEye_move_initial(
             [field_size |-> field_size, shape |-> shape,
              image |-> MechanicalEye_binarize_img(
                  MechanicalEye_binarize_img(astype_uint8(image), 255), 1),
              boundaries |-> <<<<field_size \div 2, shape[1] - 1 - field_size \div 2>>,
                               <<field_size \div 2, shape[2] - 1 - field_size \div 2>>>>,
              bound_reached |-> FALSE,
              center_position |-> None, point1 |-> None, point2 |-> None,
              frame |-> Unset]))

\* new_center[axis] after the two tests against the boundaries of the axis
MechanicalEye_clamped(x, bounds) ==
    IF x < bounds[1] THEN bounds[1]
    ELSE IF x > bounds[2] THEN bounds[2]
    ELSE x

MechanicalEye_move(e, displacement) ==
    LET requested == <<e.center_position[1] + displacement[1],
                       e.center_position[2] + displacement[2]>>
        new_center == <<MechanicalEye_clamped(requested[1], e.boundaries[1]),
                        MechanicalEye_clamped(requested[2], e.boundaries[2])>>
        bound_reached == new_center # requested
        moved == IF bound_reached
                 THEN <<new_center[1] - e.center_position[1],
                        new_center[2] - e.center_position[2]>>
                 ELSE displacement
    IN  MechanicalEye_update_frame(
            [e EXCEPT !.bound_reached = bound_reached,
                      !.center_position = new_center,
                      !.point1 = <<e.point1[1] + moved[1], e.point1[2] + moved[2]>>,
                      !.point2 = <<e.point2[1] + moved[1], e.point2[2] + moved[2]>>])

----------------------------------------------------------------------------
(* structures/eye_models.py: EyeModelAlpha, one cell at a time *)

\* grayscale images of a given shape
Bright(shape) == [p \in Positions(shape) |-> 255]
Bar(shape) == [p \in Positions(shape) |-> IF p[2] = shape[2] \div 2 THEN 255 ELSE 0]
Dot(shape) == [p \in Positions(shape) |-> IF p = <<shape[1] \div 2, shape[2] \div 2>> THEN 128 ELSE 127]
Images(shape) == {Bright(shape), Bar(shape), Dot(shape)}

RECURSIVE SeqsOf(_, _)
SeqsOf(S, n) == IF n = 0 THEN {<<>>} ELSE {Append(q, x) : q \in SeqsOf(S, n - 1), x \in S}

ImageSources(shape) ==
    {[ndarray |-> TRUE, data |-> img] : img \in {Bar(shape)}}
    \cup {[ndarray |-> FALSE, data |-> q] : q \in UNION {SeqsOf(Images(shape), n) : n \in 1..MaxImages}}

default_on_region_threshold == One
default_off_region_threshold == Zero

GanglionsParams ==
    {[receptive_field_shape |-> <<0, 1>>, center_surround_tolerance |-> tg,
      center_threshold |-> default_center_threshold,
      surround_threshold |-> default_surround_threshold] : tg \in PolicyTags}

\* input_sublayer_type and regions_tolerance of the oriented layer
PVCWirings == {<<"on-center", "constant">>, <<"off-center", "linear">>, <<"both", "elliptical">>, <<"both", "constant">>}

PVCParams ==
    {[receptive_field_size |-> 3, input_sublayer_type |-> w[1],
      regions_tolerance |-> w[2],
      on_region_threshold |-> default_on_region_threshold,
      off_region_threshold |-> default_off_region_threshold] : w \in PVCWirings}

\* the pipeline whose four constructors have returned
EyeModelAlpha_layers(images, shape, ganglions_params, pvc_params) ==
    [data_get_layer |-> NewImagesGet(images),
     receptors_layer |-> NewRodsBinaryLayer(shape),
     ganglions_layer |-> NewGanglionsBinaryLayer(
         shape, ganglions_params.receptive_field_shape,
         ganglions_params.center_surround_tolerance,
         ganglions_params.center_threshold,
         ganglions_params.surround_threshold),
     pvc_layer |-> NewSimplePVCBinaryLayer(
         GanglionsBinaryLayer_shape(shape, ganglions_params.receptive_field_shape),
         pvc_params.receptive_field_size,
         pvc_params.input_sublayer_type, pvc_params.regions_tolerance,
         pvc_params.on_region_threshold, pvc_params.off_region_threshold),
     n_iter |-> 0]

\* EyeModelAlpha(data_get_params, receptors_params, ganglions_params,
\* pvc_params): the pipeline, or the exception of the first layer constructor
\* that raises one
NewEyeModelAlpha(images, shape, ganglions_params, pvc_params) ==
    IF Negative(shape) THEN Raise("ValueError")
    ELSE IF GanglionsBinaryLayer_init(
                shape, ganglions_params.receptive_field_shape,
                ganglions_params.center_surround_tolerance,
                ganglions_params.center_threshold,
                ganglions_params.surround_threshold).exc # "none"
    THEN Raise("ValueError")
    ELSE IF SimplePVCBinaryLayer_init(
                GanglionsBinaryLayer_shape(shape, ganglions_params.receptive_field_shape),
                pvc_params.receptive_field_size,
                pvc_params.input_sublayer_type, pvc_params.regions_tolerance,
                pvc_params.on_region_threshold, pvc_params.off_region_threshold).exc # "none"
    THEN Raise(SimplePVCBinaryLayer_init(
                GanglionsBinaryLayer_shape(shape, ganglions_params.receptive_field_shape),
                pvc_params.receptive_field_size,
                pvc_params.input_sublayer_type, pvc_params.regions_tolerance,
                pvc_params.on_region_threshold, pvc_params.off_region_threshold).exc)
    ELSE Return(EyeModelAlpha_layers(images, shape, ganglions_params, pvc_params))

NoTolCellGeo == NoTol /\ NoCell /\ NoGeo
\* no caller holds a grid of the pipeline
NoClient == client = Off

\* the constructor has returned and the variables hold the pipeline
Constructed(model, order) ==
    /\ model.exc = "none"
    /\ params = [order |-> order]
    /\ source = model.val.data_get_layer
    /\ rods = model.val.receptors_layer
    /\ ganglions = model.val.ganglions_layer
    /\ pvc = model.val.pvc_layer
    /\ eye = [n_iter |-> model.val.n_iter, runs |-> 0, raised |-> "none"]

\* pc: the place in run(): the layer being run and the number k of the next
\* cell of its loop (0: before the loop, one past the last cell: after it);
\* done and shuffled are used when a loop's cells run in an arbitrary order
At(phase, k) == [phase |-> phase, k |-> k, done |-> {}, shuffled |-> FALSE]

Init ==
    /\ \E im \in ImageSources(<<FrameSide, FrameSide>>), gp \in GanglionsParams, pp \in PVCParams :
          Constructed(NewEyeModelAlpha(im, <<FrameSide, FrameSide>>, gp, pp), "source")
    /\ pc = At("idle", 0)
    /\ NoTolCellGeo /\ NoClient

\* mutant: the oriented layer run before the center-surround layer
NextPhase_swapped(phase) ==
    IF phase = "receptors" THEN "pvc"
    ELSE IF phase = "pvc" THEN "ganglions"
    ELSE "finish"

\* the order of the calls in EyeModelAlpha.run
NextPhase(phase) ==
    IF phase = "receptors" THEN "ganglions"
    ELSE IF phase = "ganglions" THEN "pvc"
    ELSE "finish"

Raised(e) == /\ pc' = At("raised", 0)
             /\ eye' = [eye EXCEPT !.raised = e]

\* the loop goes on at next_pc with the layer r.val, or the exception r.exc
\* leaves run()
Stepped_rods(r, next_pc) ==
    IF r.exc # "none"
    THEN Raised(r.exc) /\ UNCHANGED rods
    ELSE rods' = r.val /\ pc' = next_pc /\ UNCHANGED eye
Stepped_ganglions(r, next_pc) ==
    IF r.exc # "none"
    THEN Raised(r.exc) /\ UNCHANGED ganglions
    ELSE ganglions' = r.val /\ pc' = next_pc /\ UNCHANGED eye
Stepped_pvc(r, next_pc) ==
    IF r.exc # "none"
    THEN Raised(r.exc) /\ UNCHANGED pvc
    ELSE pvc' = r.val /\ pc' = next_pc /\ UNCHANGED eye

InOrder == At(pc.phase, pc.k + 1)
\* cell number i of n has run out of turn
AnyOrder(i, n) ==
    IF pc.done \cup {i} = 1..n
    THEN [phase |-> pc.phase, k |-> n + 1, done |-> {},
          shuffled |-> pc.shuffled \/ i # Cardinality(pc.done) + 1]
    ELSE [pc EXCEPT !.done = @ \cup {i},
                    !.shuffled = @ \/ i # Cardinality(pc.done) + 1]

EyeModelAlpha_run_begin ==
    /\ pc.phase \in {"idle", "raised"}
    /\ eye.runs < MaxRuns
    /\ eye' = [eye EXCEPT !.runs = @ + 1]
    /\ pc' = At("receptors", 0)
    /\ UNCHANGED <<params, source, rods, ganglions, pvc, tol, cell, geo, client>>

RodsBinaryLayer_run_begin ==
    /\ pc.phase = "receptors" /\ pc.k = 0
    /\ source' = ImagesGet_load_new_frame(source)
    /\ rods' = [rods EXCEPT !.input_ = source'.frame]
    /\ pc' = At("receptors", 1)
    /\ UNCHANGED <<params, ganglions, pvc, eye, tol, cell, geo, client>>

RodsBinaryLayer_run_loop ==
    /\ params.order # "receptors"
    /\ pc.phase = "receptors" /\ pc.k \in 1..NumCells(rods.shape)
    /\ Stepped_rods(RodsBinaryLayer_run_cell(rods, PositionOf(pc.k, rods.shape)), InOrder)
    /\ UNCHANGED <<params, source, ganglions, pvc, tol, cell, geo, client>>

RodsBinaryLayer_run_loop_any ==
    /\ params.order = "receptors"
    /\ pc.phase = "receptors" /\ pc.k = 1
    /\ \E i \in (1..NumCells(rods.shape)) \ pc.done :
          Stepped_rods(RodsBinaryLayer_run_cell(rods, PositionOf(i, rods.shape)), AnyOrder(i, NumCells(rods.shape)))
    /\ UNCHANGED <<params, source, ganglions, pvc, tol, cell, geo, client>>

RodsBinaryLayer_run_end ==
    /\ pc.phase = "receptors" /\ pc.k = NumCells(rods.shape) + 1
    /\ rods' = [rods EXCEPT !.n_iter = @ + 1]
    /\ pc' = At(NextPhase("receptors"), 0)
    /\ UNCHANGED <<params, source, ganglions, pvc, eye, tol, cell, geo, client>>

\* self.input_ = self._previous_layer.response binds the same array
ReceptorsResponse == "receptors_layer.response"

GanglionsBinaryLayer_run_begin ==
    /\ pc.phase = "ganglions" /\ pc.k = 0
    /\ ganglions' = [ganglions EXCEPT !.input_ = ReceptorsResponse]
    /\ pc' = At("ganglions", 1)
    /\ UNCHANGED <<params, source, rods, pvc, eye, tol, cell, geo, client>>

\* the loop runs on cell, off cell, on cell, ...: cell number k is the on
\* cell (k odd) or the off cell (k even) of the position numbered (k + 1) \div 2
GanglionsBinaryLayer_run_kth(k) ==
    IF k % 2 = 1
    THEN GanglionsBinaryLayer_run_on_cell(ganglions, rods.cells, PositionOf((k + 1) \div 2, ganglions.shape))
    ELSE GanglionsBinaryLayer_run_off_cell(ganglions, rods.cells, PositionOf((k + 1) \div 2, ganglions.shape))

GanglionsBinaryLayer_run_loop_on ==
    /\ params.order # "ganglions"
    /\ pc.phase = "ganglions" /\ pc.k \in 1..(2 * NumCells(ganglions.shape))
    /\ pc.k % 2 = 1
    /\ Stepped_ganglions(GanglionsBinaryLayer_run_kth(pc.k), InOrder)
    /\ UNCHANGED <<params, source, rods, pvc, tol, cell, geo, client>>

GanglionsBinaryLayer_run_loop_off ==
    /\ params.order # "ganglions"
    /\ pc.phase = "ganglions" /\ pc.k \in 1..(2 * NumCells(ganglions.shape))
    /\ pc.k % 2 = 0
    /\ Stepped_ganglions(GanglionsBinaryLayer_run_kth(pc.k), InOrder)
    /\ UNCHANGED <<params, source, rods, pvc, tol, cell, geo, client>>

GanglionsBinaryLayer_run_loop_any ==
    /\ params.order = "ganglions"
    /\ pc.phase = "ganglions" /\ pc.k = 1
    /\ \E i \in (1..(2 * NumCells(ganglions.shape))) \ pc.done :
          Stepped_ganglions(GanglionsBinaryLayer_run_kth(i), AnyOrder(i, 2 * NumCells(ganglions.shape)))
    /\ UNCHANGED <<params, source, rods, pvc, tol, cell, geo, client>>

GanglionsBinaryLayer_run_end ==
    /\ pc.phase = "ganglions" /\ pc.k = 2 * NumCells(ganglions.shape) + 1
    /\ ganglions' = [ganglions EXCEPT !.n_iter = @ + 1]
    /\ pc' = At(NextPhase("ganglions"), 0)
    /\ UNCHANGED <<params, source, rods, pvc, eye, tol, cell, geo, client>>

SimplePVCBinaryLayer_run_begin ==
    /\ pc.phase = "pvc" /\ pc.k = 0
    /\ pvc' = [pvc EXCEPT !.input_ = ganglions.response]
    /\ pc' = At("pvc", 1)
    /\ UNCHANGED <<params, source, rods, ganglions, eye, tol, cell, geo, client>>

\* the loop runs the cells type by type, each type in row-major order
PVCTypeOf(k, shape) == SIMPLE_PVC_TYPES[(k - 1) \div NumCells(shape) + 1]
PVCPositionOf(k, shape) == PositionOf(((k - 1) % NumCells(shape)) + 1, shape)
SimplePVCBinaryLayer_run_kth(k) ==
    SimplePVCBinaryLayer_run_cell(pvc, ganglions.on_cells, ganglions.off_cells, PVCTypeOf(k, pvc.shape), PVCPositionOf(k, pvc.shape))

SimplePVCBinaryLayer_run_loop ==
    /\ params.order # "pvc"
    /\ pc.phase = "pvc" /\ pc.k \in 1..(Len(SIMPLE_PVC_TYPES) * NumCells(pvc.shape))
    /\ Stepped_pvc(SimplePVCBinaryLayer_run_kth(pc.k), InOrder)
    /\ UNCHANGED <<params, source, rods, ganglions, tol, cell, geo, client>>

SimplePVCBinaryLayer_run_loop_any ==
    /\ params.order = "pvc"
    /\ pc.phase = "pvc" /\ pc.k = 1
    /\ \E i \in (1..(Len(SIMPLE_PVC_TYPES) * NumCells(pvc.shape))) \ pc.done :
          Stepped_pvc(SimplePVCBinaryLayer_run_kth(i), AnyOrder(i, Len(SIMPLE_PVC_TYPES) * NumCells(pvc.shape)))
    /\ UNCHANGED <<params, source, rods, ganglions, tol, cell, geo, client>>

SimplePVCBinaryLayer_run_end ==
    /\ pc.phase = "pvc" /\ pc.k = Len(SIMPLE_PVC_TYPES) * NumCells(pvc.shape) + 1
    /\ pvc' = [pvc EXCEPT !.n_iter = @ + 1]
    /\ pc' = At(NextPhase("pvc"), 0)
    /\ UNCHANGED <<params, source, rods, ganglions, eye, tol, cell, geo, client>>

EyeModelAlpha_run_end ==
    /\ pc.phase = "finish"
    /\ eye' = [eye EXCEPT !.n_iter = @ + 1]
    /\ pc' = At("idle", 0)
    /\ UNCHANGED <<params, source, rods, ganglions, pvc, tol, cell, geo, client>>

Next ==
    \/ EyeModelAlpha_run_begin
    \/ RodsBinaryLayer_run_begin
    \/ RodsBinaryLayer_run_loop
    \/ RodsBinaryLayer_run_end
    \/ GanglionsBinaryLayer_run_begin
    \/ GanglionsBinaryLayer_run_loop_on
    \/ GanglionsBinaryLayer_run_loop_off
    \/ GanglionsBinaryLayer_run_end
    \/ SimplePVCBinaryLayer_run_begin
    \/ SimplePVCBinaryLayer_run_loop
    \/ SimplePVCBinaryLayer_run_end
    \/ EyeModelAlpha_run_end

Spec == Init /\ [][Next]_vars

----------------------------------------------------------------------------
(* Construction of the center-surround layer and of the oriented layer *)

\* previous-layer shapes, field shapes, field sizes and sub-layer tags tried
BuildShapes == (1..FrameSide) \X (1..FrameSide)
BuildFieldShapes == {rf \in Radii \X Radii : rf[1] <= 1}
BuildFieldSizes == 1..MaxBuildSize
BuildSublayerTypes == SublayerTypes \cup {"mixed"}

BuildParams ==
    {[order |-> "build", shape |-> sh, receptive_field_shape |-> rf,
      receptive_field_size |-> size, input_sublayer_type |-> ty] :
        sh \in BuildShapes, rf \in BuildFieldShapes,
        size \in BuildFieldSizes, ty \in BuildSublayerTypes}

\* the constructor call has returned layer r.val, or raised r.exc: pc then
\* holds the number of the constructor that raised
Built_ganglions(r) ==
    IF r.exc # "none"
    THEN /\ pc' = At("raised", 1)
         /\ eye' = [eye EXCEPT !.raised = r.exc]
         /\ UNCHANGED ganglions
    ELSE ganglions' = r.val /\ pc' = At("SimplePVCBinaryLayer", 0) /\ UNCHANGED eye
Built_pvc(r) ==
    IF r.exc # "none"
    THEN /\ pc' = At("raised", 2)
         /\ eye' = [eye EXCEPT !.raised = r.exc]
         /\ UNCHANGED pvc
    ELSE pvc' = r.val /\ pc' = At("built", 0) /\ UNCHANGED eye

GanglionsBinaryLayer_construct ==
    /\ pc.phase = "GanglionsBinaryLayer"
    /\ Built_ganglions(GanglionsBinaryLayer_init(rods.shape,
           params.receptive_field_shape, "constant",
           default_center_threshold, default_surround_threshold))
    /\ UNCHANGED <<params, source, rods, pvc, tol, cell, geo, client>>

SimplePVCBinaryLayer_construct ==
    /\ pc.phase = "SimplePVCBinaryLayer"
    /\ Built_pvc(SimplePVCBinaryLayer_init(ganglions.shape,
           params.receptive_field_size, params.input_sublayer_type,
           "constant", default_on_region_threshold,
           default_off_region_threshold))
    /\ UNCHANGED <<params, source, rods, ganglions, tol, cell, geo, client>>

InitBuild ==
    /\ params \in BuildParams
    /\ source = Off
    /\ rods = NewRodsBinaryLayer(params.shape)
    /\ ganglions = Pending /\ pvc = Pending
    /\ eye = [n_iter |-> 0, runs |-> 0, raised |-> "none"]
    /\ pc = At("GanglionsBinaryLayer", 0)
    /\ NoTolCellGeo /\ NoClient

NextBuild ==
    \/ GanglionsBinaryLayer_construct
    \/ SimplePVCBinaryLayer_construct

SpecBuild == InitBuild /\ [][NextBuild]_vars

----------------------------------------------------------------------------
(* The pipeline with the cells of one layer run in an arbitrary order *)

\* the layer whose loop is reordered, the leaf shape and the oriented field
\* size: the layer has few cells, so that every order of its loop is tried
\* (surround radius 1; field size 1 or 3; the layers after a leaf layer of
\* two rows have no cells)
SweepSetups ==
    {[order |-> "receptors", shape |-> <<2, FrameSide - 3>>, size |-> 1],
     [order |-> "ganglions", shape |-> <<2 * 1 + 1, FrameSide - 1>>, size |-> 1],
     [order |-> "pvc", shape |-> <<3 + 2 * 1, FrameSide>>, size |-> 3]}

SweepSources(shape) == {[ndarray |-> FALSE, data |-> q] : q \in SeqsOf({Bar(shape), Dot(shape)}, MaxImages)}

SweepGanglionsParams(order) ==
    IF order = "receptors"
    THEN {gp \in GanglionsParams : gp.center_surround_tolerance = "constant"}
    ELSE {gp \in GanglionsParams : gp.center_surround_tolerance \in Tolerances}

SweepPVCParams(order, size) ==
    IF order = "pvc"
    THEN {[pp EXCEPT !.receptive_field_size = size] : pp \in PVCParams}
    ELSE {[pp EXCEPT !.receptive_field_size = size] : pp \in {qq \in PVCParams : qq.input_sublayer_type = "both" /\ qq.regions_tolerance = "constant"}}

InitSweep ==
    /\ \E su \in SweepSetups :
         \E im \in SweepSources(su.shape), gp \in SweepGanglionsParams(su.order), pp \in SweepPVCParams(su.order, su.size) :
            Constructed(NewEyeModelAlpha(im, su.shape, gp, pp), su.order)
    /\ pc = At("idle", 0)
    /\ NoTolCellGeo /\ NoClient

NextSweep ==
    \/ EyeModelAlpha_run_begin
    \/ RodsBinaryLayer_run_begin
    \/ RodsBinaryLayer_run_loop
    \/ RodsBinaryLayer_run_loop_any
    \/ RodsBinaryLayer_run_end
    \/ GanglionsBinaryLayer_run_begin
    \/ GanglionsBinaryLayer_run_loop_on
    \/ GanglionsBinaryLayer_run_loop_off
    \/ GanglionsBinaryLayer_run_loop_any
    \/ GanglionsBinaryLayer_run_end
    \/ SimplePVCBinaryLayer_run_begin
    \/ SimplePVCBinaryLayer_run_loop
    \/ SimplePVCBinaryLayer_run_loop_any
    \/ SimplePVCBinaryLayer_run_end
    \/ EyeModelAlpha_run_end

SpecSweep == InitSweep /\ [][NextSweep]_vars

----------------------------------------------------------------------------
(* The accessors of EyeModelAlpha and a caller that writes into what it got *)

\* a reference to an array or container: the object referred to and, when the
\* object is one only the holder refers to, its value
Ref(object, value) == [object |-> object, value |-> value]
\* copy.deepcopy: a new object with the same entries
deepcopy(ref) == Ref("fresh", ref.value)

\* mutant: the layer's own response list returned
EyeModelAlpha_get_ganglion_response_shared == Return(Ref("ganglions_layer.response", ganglions.response))

EyeModelAlpha_get_ganglion_response == Return(deepcopy(Ref("ganglions_layer.response", ganglions.response)))
EyeModelAlpha_get_pvc_response == Return(deepcopy(Ref("pvc_layer.response", pvc.response)))
\* get_last_frame reads _frame, which _load_new_frame sets
EyeModelAlpha_get_input ==
    IF source.n_iter = 0 THEN Raise("AttributeError")
    ELSE Return(deepcopy(Ref("data_get_layer._frame", source.frame)))

\* the entries of a returned grid: response[k][i][j], response[type_][i][j],
\* frame[i][j]
Entries(of, grid) ==
    IF of = "get_input" THEN {<<p>> : p \in DOMAIN grid}
    ELSE UNION {{<<k, p>> : p \in DOMAIN grid[k]} : k \in DOMAIN grid}
Get(grid, e) == IF Len(e) = 1 THEN grid[e[1]] ELSE grid[e[1]][e[2]]
Put(grid, e, v) ==
    IF Len(e) = 1 THEN [grid EXCEPT ![e[1]] = v]
    ELSE [grid EXCEPT ![e[1]][e[2]] = v]

\* the grid the caller sees through its reference
Deref(c) ==
    IF c.object = "ganglions_layer.response" THEN ganglions.response
    ELSE IF c.object = "pvc_layer.response" THEN pvc.response
    ELSE IF c.object = "data_get_layer._frame" THEN source.frame
    ELSE c.value

NoHandle == [of |-> "none", object |-> "none", value |-> None, taken |-> 0, writes |-> 0, exc |-> "none"]

\* the accessor has returned r.val or raised r.exc
Got(of, r) ==
    client' = IF r.exc # "none"
              THEN [NoHandle EXCEPT !.exc = r.exc]
              ELSE [of |-> of, object |-> r.val.object, value |-> r.val.value,
                    taken |-> eye.n_iter, writes |-> 0, exc |-> "none"]

Between == pc.phase \in {"idle", "raised"}

Call_get_ganglion_response ==
    /\ Between
    /\ Got("get_ganglion_response", EyeModelAlpha_get_ganglion_response)
    /\ UNCHANGED <<params, source, rods, ganglions, pvc, eye, pc, tol, cell, geo>>

Call_get_pvc_response ==
    /\ Between
    /\ Got("get_pvc_response", EyeModelAlpha_get_pvc_response)
    /\ UNCHANGED <<params, source, rods, ganglions, pvc, eye, pc, tol, cell, geo>>

Call_get_input ==
    /\ Between
    /\ Got("get_input", EyeModelAlpha_get_input)
    /\ UNCHANGED <<params, source, rods, ganglions, pvc, eye, pc, tol, cell, geo>>

\* the caller assigns v to entry e of the object it holds
Assigned(e, v) ==
    IF client.object = "ganglions_layer.response"
    THEN /\ ganglions' = [ganglions EXCEPT !.response = Put(@, e, v)]
         /\ client' = [client EXCEPT !.writes = @ + 1]
         /\ UNCHANGED <<source, pvc>>
    ELSE IF client.object = "pvc_layer.response"
    THEN /\ pvc' = [pvc EXCEPT !.response = Put(@, e, v)]
         /\ client' = [client EXCEPT !.writes = @ + 1]
         /\ UNCHANGED <<source, ganglions>>
    ELSE IF client.object = "data_get_layer._frame"
    THEN /\ source' = [source EXCEPT !.frame = Put(@, e, v)]
         /\ client' = [client EXCEPT !.writes = @ + 1]
         /\ UNCHANGED <<ganglions, pvc>>
    ELSE /\ client' = [client EXCEPT !.value = Put(@, e, v), !.writes = @ + 1]
         /\ UNCHANGED <<source, ganglions, pvc>>

Caller_writes ==
    /\ Between
    /\ client.of # "none"
    /\ client.writes < MaxWrites
    /\ \E e \in Entries(client.of, Deref(client)), v \in {0, 1} :
          /\ Held(Get(Deref(client), e)) # {v}
          /\ Assigned(e, v)
    /\ UNCHANGED <<params, rods, eye, pc, tol, cell, geo>>

\* a leaf layer of 3 x (FrameSide - 1) cells, fields of radii (0, 1) and of
\* size 1: one row of center-surround cells and of oriented cells
AccessShape == <<2 * 1 + 1, FrameSide - 1>>

\* lists of one image and of MaxImages images
AccessSources(shape) == {[ndarray |-> FALSE, data |-> q] : q \in SeqsOf({Bar(shape), Dot(shape)}, 1) \cup SeqsOf({Bar(shape), Dot(shape)}, MaxImages)}

InitAccess ==
    /\ \E im \in AccessSources(AccessShape), gp \in SweepGanglionsParams("receptors"), pp \in SweepPVCParams("receptors", 1) :
          Constructed(NewEyeModelAlpha(im, AccessShape, gp, pp), "source")
    /\ pc = At("idle", 0)
    /\ NoTolCellGeo
    /\ client = NoHandle

NextAccess ==
    \/ EyeModelAlpha_run_begin
    \/ RodsBinaryLayer_run_begin
    \/ RodsBinaryLayer_run_loop
    \/ RodsBinaryLayer_run_end
    \/ GanglionsBinaryLayer_run_begin
    \/ GanglionsBinaryLayer_run_loop_on
    \/ GanglionsBinaryLayer_run_loop_off
    \/ GanglionsBinaryLayer_run_end
    \/ SimplePVCBinaryLayer_run_begin
    \/ SimplePVCBinaryLayer_run_loop
    \/ SimplePVCBinaryLayer_run_end
    \/ EyeModelAlpha_run_end
    \/ Call_get_ganglion_response
    \/ Call_get_pvc_response
    \/ Call_get_input
    \/ Caller_writes

SpecAccess == InitAccess /\ [][NextAccess]_vars

----------------------------------------------------------------------------
(* The pipeline on a source whose frames do not have the leaf layer's shape *)

\* frame shapes that differ from the leaf layer's: a row short, a column
\* short, a row and a column too many
OtherShapes(shape) ==
    {<<shape[1] - 1, shape[2]>>, <<shape[1], shape[2] - 1>>,
     <<shape[1] + 1, shape[2] + 1>>}

InitFrame ==
    /\ \E fs \in OtherShapes(AccessShape) :
         \E im \in SweepSources(fs), gp \in SweepGanglionsParams("receptors"), pp \in SweepPVCParams("receptors", 1) :
            Constructed(NewEyeModelAlpha(im, AccessShape, gp, pp), "source")
    /\ pc = At("idle", 0)
    /\ NoTolCellGeo /\ NoClient

SpecFrame == InitFrame /\ [][Next]_vars

----------------------------------------------------------------------------
(* The pipeline on a frame and then on its negative, over thresholds on    *)
(* both sides of 1/2                                                       *)

\* bright but for the middle pixel
Hole(shape) == [p \in Positions(shape) |-> IF p = <<shape[1] \div 2, shape[2] \div 2>> THEN 0 ELSE 255]
\* the negative of a grayscale image
Inverse(img) == [p \in DOMAIN img |-> 255 - img[p]]
PolarSources(shape) ==
    {[ndarray |-> FALSE, data |-> <<img, Inverse(img)>>] :
        img \in {Hole(shape), Dot(shape), Bar(shape), Bright(shape)}}

\* center radius 1 in surround radius 2 under an oriented field of one cell,
\* and the field of a single center cell under oriented fields of size 3,
\* which read both sub-layers under every policy or one of them
PolarSetups == {[field |-> <<1, 2>>, size |-> 1], [field |-> <<0, 1>>, size |-> 3]}

PolarGanglionsParams(field) ==
    {[receptive_field_shape |-> field, center_surround_tolerance |-> tg,
      center_threshold |-> ct, surround_threshold |-> st] :
        tg \in Tolerances,
        ct \in IF field[1] = 0 THEN {Rat(3, 4)} ELSE {Rat(1, 5), Rat(3, 4), One},
        st \in IF field[1] = 0 THEN {Zero, One} ELSE {Zero, default_surround_threshold, One}}

PolarPVCParams(size) ==
    IF size = 1
    THEN {[receptive_field_size |-> size, input_sublayer_type |-> "both",
           regions_tolerance |-> "constant",
           on_region_threshold |-> default_on_region_threshold,
           off_region_threshold |-> default_off_region_threshold]}
    ELSE {[receptive_field_size |-> size, input_sublayer_type |-> "both",
           regions_tolerance |-> tg, on_region_threshold |-> on, off_region_threshold |-> off] :
             tg \in Tolerances, on \in {Rat(1, 3), Rat(3, 4), One}, off \in {Zero, One}}
         \cup {[receptive_field_size |-> size, input_sublayer_type |-> one,
                regions_tolerance |-> tg, on_region_threshold |-> Rat(1, 3), off_region_threshold |-> off] :
                  one \in {"on-center", "off-center"}, tg \in Tolerances, off \in {Zero, One}}

InitPolar ==
    /\ \E su \in PolarSetups :
         \E im \in PolarSources(<<FrameSide, FrameSide>>), gp \in PolarGanglionsParams(su.field), pp \in PolarPVCParams(su.size) :
            Constructed(NewEyeModelAlpha(im, <<FrameSide, FrameSide>>, gp, pp), "source")
    /\ pc = At("idle", 0)
    /\ NoTolCellGeo /\ NoClient

SpecPolar == InitPolar /\ [][Next]_vars

----------------------------------------------------------------------------
(* The mechanical eye: construction and calls of move() and move_initial(); *)
(* source holds the eye, pc the last call made on it                        *)

\* grayscale images: a bright diagonal, a bright first row on a grey ground,
\* and an array of integers outside 0..255
Diagonal(shape) == [p \in Positions(shape) |-> IF p[1] = p[2] THEN 255 ELSE 0]
TopRow(shape) == [p \in Positions(shape) |-> IF p[1] = 0 THEN 200 ELSE 100]
OutOfRange(shape) == [p \in Positions(shape) |-> IF p[1] = p[2] THEN 383 ELSE -1]

\* fields of view and images at least as large: the square ones and those
\* with one column more than rows
EyeSetups ==
    {[op |-> "MechanicalEye", field_size |-> fs, shape |-> <<side, side + wider>>, image |-> img] :
        fs \in 1..MaxEyeField, side \in 1..MaxEyeSide, wider \in {0, 1}, img \in {"Diagonal", "TopRow", "OutOfRange"}}
EyeImage(setup) ==
    IF setup.image = "Diagonal" THEN Diagonal(setup.shape)
    ELSE IF setup.image = "TopRow" THEN TopRow(setup.shape)
    ELSE OutOfRange(setup.shape)

Displacements == ((-MaxShift)..MaxShift) \X ((-MaxShift)..MaxShift)

NoPipeline ==
    /\ params = Off /\ rods = Off /\ ganglions = Off
    /\ pvc = Off /\ eye = Off /\ client = Off

LastCall(phase, op, displacement, from) == [phase |-> phase, op |-> op, displacement |-> displacement, from |-> from]

MechanicalEye_construct ==
    /\ pc.phase = "MechanicalEye"
    /\ LET r == MechanicalEye_init(EyeImage(source), source.shape, source.field_size)
       IN  IF r.exc # "none"
           THEN /\ pc' = LastCall("raised", r.exc, <<0, 0>>, <<0, 0>>)
                /\ UNCHANGED source
           ELSE /\ source' = r.val
                /\ pc' = LastCall("constructed", "MechanicalEye", <<0, 0>>, <<0, 0>>)
    /\ UNCHANGED <<tol, cell, geo, params, rods, ganglions, pvc, eye, client>>

Call_move_initial ==
    /\ pc.phase = "constructed"
    /\ source' = MechanicalEye_move_initial(source)
    /\ pc' = LastCall("constructed", "move_initial", <<0, 0>>, source.center_position)
    /\ UNCHANGED <<tol, cell, geo, params, rods, ganglions, pvc, eye, client>>

Call_move(displacement) ==
    /\ pc.phase = "constructed"
    /\ source' = MechanicalEye_move(source, displacement)
    /\ pc' = LastCall("constructed", "move", displacement, source.center_position)
    /\ UNCHANGED <<tol, cell, geo, params, rods, ganglions, pvc, eye, client>>

InitEye ==
    /\ source \in {setup \in EyeSetups : setup.shape[1] >= setup.field_size}
    /\ pc = LastCall("MechanicalEye", "none", <<0, 0>>, <<0, 0>>)
    /\ NoTolCellGeo /\ NoPipeline

NextEye ==
    \/ MechanicalEye_construct
    \/ Call_move_initial
    \/ \E displacement \in Displacements : Call_move(displacement)

SpecEye == InitEye /\ [][NextEye]_vars

----------------------------------------------------------------------------
(* Properties of the cells (SpecCell) *)

\* the share of 1s among the values of a list, counted position by position
ShareOf(vals) ==
    IF Len(vals) = 0 THEN NaN
    ELSE Rat(Cardinality({i \in DOMAIN vals : vals[i] = 1}), Len(vals))

Complement(vals) == [i \in DOMAIN vals |-> 1 - vals[i]]

IsCell == cell.kind \in {"rod", "bipolar", "pvc"}

\* C1: after every run() of a rod, center-surround or oriented cell whose
\* inputs are 0 or 1, the cell's response is 0 or 1.
C1_ResponseBinary ==
    (IsCell /\ cell.n_iter > 0) => cell.response \in {0, 1}

C1_Witness ==
    /\ cell.kind = "pvc" /\ cell.ran
    /\ cell.input_sublayer_type = "both"
    /\ cell.regions_tolerance = "elliptical"
    /\ cell.response = 1

\* C2: an on-center cell under the constant policy responds 1 exactly when
\* center_share >= center_threshold and surround_share <= surround_threshold;
\* it responds 1 when both hold with equality, and 0 for thresholds 0.8 / 0.2,
\* all center inputs 1 and surround share 0.3.
C2_ConstantOnCenter ==
    (cell.kind = "bipolar" /\ cell.ran /\ cell.center_type = 1
        /\ cell.tolerance = "constant") =>
    LET cs == ShareOf(cell.center_input)
        ss == ShareOf(cell.surround_input)
    IN  /\ cell.response = 1 <=>
              (RGeq(cs, cell.center_threshold)
               /\ RLeq(ss, cell.surround_threshold))
        /\ (cs = cell.center_threshold /\ ss = cell.surround_threshold)
              => cell.response = 1
        /\ (cell.center_threshold = Rat(4, 5)
             /\ cell.surround_threshold = Rat(1, 5)
             /\ cs = One /\ ss = Rat(3, 10)) => cell.response = 0

C2_Witness ==
    /\ cell.kind = "bipolar" /\ cell.ran /\ cell.center_type = 1
    /\ cell.tolerance = "constant"
    /\ cell.center_threshold = Rat(4, 5)
    /\ cell.surround_threshold = Rat(1, 5)
    /\ ShareOf(cell.center_input) = cell.center_threshold
    /\ ShareOf(cell.surround_input) = cell.surround_threshold
    /\ cell.response = 1

\* the 0.8 / 0.2 / 0.3 case of C2 happens
C2_ExampleReached ==
    /\ cell.kind = "bipolar" /\ cell.ran /\ cell.center_type = 1
    /\ cell.tolerance = "constant"
    /\ cell.center_threshold = Rat(4, 5)
    /\ cell.surround_threshold = Rat(1, 5)
    /\ ShareOf(cell.center_input) = One
    /\ ShareOf(cell.surround_input) = Rat(3, 10)
    /\ cell.response = 0

\* the share 1 - k / n an off-center cell computes from a list of inputs
ComplementShare(vals) == FlSub(FlOne, FlOf(ShareOf(vals)))

\* C3: under every policy the response of an off-center cell is the response
\* of the policy, with the cell's thresholds, at the complemented shares
\* 1 - center_share and 1 - surround_share
C3_OffCenterComplement ==
    (cell.kind = "bipolar" /\ cell.ran /\ cell.center_type = -1) =>
        cell.response =
            BipolarPolicy(ComplementShare(cell.center_input),
                          ComplementShare(cell.surround_input),
                          cell.tolerance, cell.center_threshold,
                          cell.surround_threshold).val

C3_Witness ==
    /\ cell.kind = "bipolar" /\ cell.ran /\ cell.center_type = -1
    /\ cell.tolerance = "linear"
    /\ Sum(cell.center_input) = 0
    /\ Sum(cell.surround_input) \in 1..(Len(cell.surround_input) - 1)
    /\ cell.response = 1
    /\ cell.n_iter = 2

\* the tolerance the linear or elliptical policy compares with
ToleranceOf(tag, x, x1, y2) ==
    IF tag = "linear" THEN tolerance_line(x, FlOf(x1), FlOf(y2)).val
    ELSE tolerance_ellipse(x, FlOf(x1), FlOf(y2)).val

\* the policy test of C4 on the two shares, floats as the cell computes them
PassesTolerance(tag, center_share, surround_share, x1, y2) ==
    SLeq(OfFl(surround_share), ToleranceOf(tag, center_share, x1, y2))

\* C4: under the linear and the elliptical policy the response of a
\* center-surround or oriented cell is 1 exactly when surround_share <=
\* tolerance(center_share, center_threshold, surround_threshold) (in 'both'
\* mode: for both branches); when center_share <= center_threshold the
\* response is 0 whatever the surround share is.  The shares are the floats
\* the cell computes, 1 - k / n for an off-center cell, numpy.float64 for an
\* oriented cell.
C4_ToleranceTest ==
    /\ (cell.kind = "bipolar" /\ cell.ran
          /\ cell.tolerance \in {"linear", "elliptical"}) =>
        LET c == FlOf(ShareOf(cell.center_input))
            u == FlOf(ShareOf(cell.surround_input))
            cs == IF cell.center_type = 1 THEN c ELSE FlSub(FlOne, c)
            ss == IF cell.center_type = 1 THEN u ELSE FlSub(FlOne, u)
        IN  /\ cell.response = 1 <=>
                  PassesTolerance(cell.tolerance, cs, ss,
                                  cell.center_threshold,
                                  cell.surround_threshold)
            /\ FlLeq(cs, FlOf(cell.center_threshold)) => cell.response = 0
    /\ (cell.kind = "pvc" /\ cell.ran
          /\ cell.regions_tolerance \in {"linear", "elliptical"}
          /\ cell.input_sublayer_type \in {"on-center", "off-center"}) =>
        LET on == float64(FlOf(ShareOf(cell.on_region_input)))
            off == float64(FlOf(ShareOf(cell.off_region_input)))
        IN  /\ cell.response = 1 <=>
                  PassesTolerance(cell.regions_tolerance, on, off,
                                  cell.on_region_threshold,
                                  cell.off_region_threshold)
            /\ FlLeq(on, FlOf(cell.on_region_threshold)) => cell.response = 0
    /\ (cell.kind = "pvc" /\ cell.ran
          /\ cell.regions_tolerance \in {"linear", "elliptical"}
          /\ cell.input_sublayer_type = "both") =>
        /\ cell.response = 1 <=>
              \A b \in 1..2 :
                  PassesTolerance(cell.regions_tolerance,
                                  float64(FlOf(ShareOf(cell.on_region_input[b]))),
                                  float64(FlOf(ShareOf(cell.off_region_input[b]))),
                                  cell.on_region_threshold,
                                  cell.off_region_threshold)
        /\ (\E b \in 1..2 : FlLeq(FlOf(ShareOf(cell.on_region_input[b])),
                                  FlOf(cell.on_region_threshold)))
              => cell.response = 0

C4_Witness ==
    /\ cell.kind = "bipolar" /\ cell.ran /\ cell.center_type = 1
    /\ cell.tolerance = "elliptical"
    /\ ShareOf(cell.center_input) = cell.center_threshold
    /\ cell.center_threshold = Rat(4, 5)
    /\ RGt(cell.surround_threshold, Zero)
    /\ Sum(cell.surround_input) = 0
    /\ cell.response = 0

----------------------------------------------------------------------------
(* Properties of the tolerance functions (SpecTol) *)

\* y2 * (x - x1) / (1 - x1), x1 < 1, in the rationals
LineFormula(x, x1, y2) == RDiv(RMul(y2, RSub(x, x1)), RSub(One, x1))
\* the float v is the rational r but for the roundings of the operations
\* that formed it
UpToRounding(v, r) == v.r = FlOne /\ Nominal(v.c) = r

\* C5: for 0 <= x1 < 1, y2 >= 0 and x in [0, 1] both tolerance functions are
\* negative for x <= x1, equal y2 at x = 1 and are non-decreasing in x on
\* (x1, 1]; the linear one equals y2 * (x - x1) / (1 - x1) there.  "Equal
\* y2" is read as: the float y2; "equals y2 * (x - x1) / (1 - x1)" as: but
\* for the roundings of the float operations.
C5_ToleranceShape ==
    (Called(tol.cur) /\ RLt(tol.x1, One)) =>
    LET c == tol.cur
        p == tol.prev
    IN  /\ RLeq(c.x, tol.x1) => SSign(c.ret.val) = -1
        /\ c.x = One => c.ret.val = OfFl(FlOf(tol.y2))
        /\ (Called(p) /\ p.fn = c.fn /\ RLt(tol.x1, p.x) /\ RLeq(p.x, c.x))
              => SLeq(p.ret.val, c.ret.val)
        /\ (c.fn = "line" /\ RGt(c.x, tol.x1))
              => UpToRounding(c.ret.val, LineFormula(c.x, tol.x1, tol.y2))

\* what of C5 the functions do: they return -1 for x <= x1 and are
\* non-decreasing on (x1, 1]; the elliptical one returns y2 at x = 1; the
\* linear one returns a float whose distance from y2 * (x - x1) / (1 - x1) is
\* that of the roundings of its operations
C5_ShapeUpToRounding ==
    (Called(tol.cur) /\ RLt(tol.x1, One)) =>
    LET c == tol.cur
        p == tol.prev
    IN  /\ c.ret.exc = "none"
        /\ RLeq(c.x, tol.x1) => c.ret.val = OfFl(FlOf(MinusOne))
        /\ (c.x = One /\ c.fn = "ellipse") => c.ret.val = OfFl(FlOf(tol.y2))
        /\ (Called(p) /\ p.fn = c.fn /\ RLt(tol.x1, p.x) /\ RLeq(p.x, c.x))
              => SLeq(p.ret.val, c.ret.val)
        /\ (c.fn = "line" /\ RGt(c.x, tol.x1))
              => UpToRounding(c.ret.val, LineFormula(c.x, tol.x1, tol.y2))

\* tolerance_line(1.0, 0.8, 0.2) is 0.19999999999999996, 2^-54 below the
\* float 0.2
C5_LineBelowY2 ==
    /\ Called(tol.cur) /\ tol.cur.fn = "line" /\ tol.cur.x = One
    /\ tol.x1 = Rat(4, 5) /\ tol.y2 = Rat(1, 5)
    /\ SLt(tol.cur.ret.val, OfFl(FlOf(tol.y2)))
    /\ RSub(FlOf(tol.y2).u, tol.cur.ret.val.c.u) = Rat(1, 2)

\* tolerance_line(1.0, 0.8, 0.6) is 0.6000000000000001, above y2
C5_LineAboveY2 ==
    /\ Called(tol.cur) /\ tol.cur.fn = "line" /\ tol.cur.x = One
    /\ tol.x1 = Rat(4, 5) /\ tol.y2 = Rat(3, 5)
    /\ SLt(OfFl(FlOf(tol.y2)), tol.cur.ret.val)

\* what follows for a cell (SpecCell): an on-center cell with the default
\* thresholds 0.8 and 0.2 under the linear policy, all of its center inputs 1
\* and 2 of its 10 surround inputs 1, has run and responds 0
C5_CellSilentAtEndpoint ==
    /\ cell.kind = "bipolar" /\ cell.ran /\ cell.center_type = 1
    /\ cell.tolerance = "linear"
    /\ cell.center_threshold = default_center_threshold
    /\ cell.surround_threshold = default_surround_threshold
    /\ Sum(cell.center_input) = Len(cell.center_input)
    /\ ShareOf(cell.surround_input) = default_surround_threshold
    /\ cell.response = 0

\* the two functions called one after the other on the same argument
LineAndEllipse ==
    /\ Called(tol.cur) /\ Called(tol.prev)
    /\ tol.cur.fn # tol.prev.fn
    /\ tol.cur.share = tol.prev.share
LineRet == IF tol.cur.fn = "line" THEN tol.cur.ret.val ELSE tol.prev.ret.val
EllipseRet == IF tol.cur.fn = "ellipse" THEN tol.cur.ret.val ELSE tol.prev.ret.val

----------------------------------------------------------------------------
(* The two tolerance functions compared on the shares of a cell (SpecShare) *)

FlSame(a, b) == FlLeq(a, b) /\ FlLeq(b, a)
RAbs(a) == IF a.n < 0 THEN RNeg(a) ELSE a

\* both functions called with x1 < 1, y2 > 0 and a share x > x1
AboveX1 ==
    /\ LineAndEllipse /\ RLt(tol.x1, One) /\ RGt(tol.y2, Zero)
    /\ FlGt(tol.cur.share, FlOf(tol.x1))
BelowOne == FlLt(tol.cur.share, FlOne)
AtOne == FlSame(tol.cur.share, FlOne)
\* (x - 1) ** 2 / (x1 - 1) ** 2 is 1.0 for x > x1: x - 1 and x1 - 1 are the
\* same float, or floats next to each other
QuotientIsOne ==
    FlSame(FlDiv(SquaredDistance(tol.cur.share), SquaredDistance(FlOf(tol.x1))),
           FlOne)
\* y2 / (1 - x1): the slope of the line, of which 2^-53 is the size of one
\* rounding of tolerance_line
LineSlope == RDiv(tol.y2, RSub(One, tol.x1))
LineRoundings == RMul(Rat(4, 1), LineSlope)
\* the float v is within e * 2^-53 of the float a
WithinOf(v, a, e) ==
    /\ v.r = FlOne /\ v.c.k = a.k /\ Nominal(v.c) = Nominal(a)
    /\ RLeq(RAbs(RSub(v.c.u, a.u)), e)
\* the float v is 0 or of the order of 2^-53 and less than e * 2^-53 in size
WithinOfZero(v, e) ==
    /\ v.r = FlOne
    /\ \/ FlIsZero(v.c)
       \/ v.c.k > 1
       \/ v.c.k = 1 /\ RLt(RAbs(Nominal(v.c)), e)
PassesLine(s) == SLeq(OfFl(s), LineRet)
PassesEllipse(s) == SLeq(OfFl(s), EllipseRet)

C6_EllipseBelowLine == (AboveX1 /\ BelowOne) => SLeq(EllipseRet, LineRet)
C6_EllipseAboveLine == (AboveX1 /\ BelowOne) => SLeq(LineRet, EllipseRet)
\* the endpoint alone, as claimed
C6_EqualAtOne == (AboveX1 /\ AtOne) => EllipseRet = LineRet

\* x1 = 0.3 and the share 1 - 0.7 = 0.30000000000000004: x - 1 is -0.7 and
\* x1 - 1 rounds to -0.7, the quotient is 1.0, the elliptical tolerance is
\* 0.0 and the linear one is above it
C6_QuotientRoundsToOne ==
    /\ AboveX1 /\ BelowOne /\ QuotientIsOne
    /\ tol.x1 = Rat(3, 10)
    /\ tol.cur.share = FlSub(FlOne, FlOf(Rat(7, 10)))
    /\ EllipseRet = OfFl(FlZero)
    /\ SLt(EllipseRet, LineRet)

\* at x = 1 the two tests differ by the roundings of the linear function:
\* with thresholds 0.8 and 0.2 the share 0.2 passes the elliptical test and
\* fails the linear one
C6_EndpointsApart ==
    /\ AboveX1 /\ AtOne
    /\ tol.x1 = Rat(4, 5) /\ tol.y2 = Rat(1, 5)
    /\ PassesEllipse(FlOf(Rat(1, 5)))
    /\ ~PassesLine(FlOf(Rat(1, 5)))

\* the tolerance policy tag of a center-surround or oriented cell
PolicyTagOf(c) == IF c.kind = "bipolar" THEN c.tolerance ELSE c.regions_tolerance
UnknownPolicy == cell.kind \in {"bipolar", "pvc"} /\ PolicyTagOf(cell) \notin Tolerances
\* the cell is as constructed: no run() has given it a response or a count
NeverResponded == cell.response = 0 /\ cell.n_iter = 0 /\ ~cell.ran

\* C19: a center-surround or oriented cell with a policy tag other than
\* constant, linear and elliptical never gets a response from run(): every
\* run() ends in an error and leaves response and n_iter as they were
C19_UnknownPolicyRaises ==
    UnknownPolicy => NeverResponded

\* the same for the cells whose run() reaches the policy test: the
\* center-surround cells and the oriented cells with one of the three
\* input_sublayer_type tags
C19_PolicyTestReached ==
    (UnknownPolicy /\ (cell.kind = "pvc" => cell.input_sublayer_type \in SublayerTypes))
    => NeverResponded

\* run() of such a cell has raised
C19_Raised ==
    /\ UnknownPolicy /\ cell.exc = "UnboundLocalError" /\ NeverResponded
    /\ cell.kind = "pvc" /\ cell.input_sublayer_type = "both"

\* the input region lists of a center-surround or oriented cell, the two
\* lists of each branch when the oriented cell reads both sub-layers
RegionLists(c) ==
    IF c.kind = "bipolar" THEN {c.center_input, c.surround_input}
    ELSE IF c.input_sublayer_type = "both"
    THEN {c.on_region_input[1], c.on_region_input[2],
          c.off_region_input[1], c.off_region_input[2]}
    ELSE {c.on_region_input, c.off_region_input}
HasEmptyRegion == cell.kind \in {"bipolar", "pvc"} /\ \E list \in RegionLists(cell) : Len(list) = 0

\* C21: a center-surround or oriented cell one of whose input region lists
\* is empty never ends a run() with a response: under every policy every
\* run() ends in an error and leaves response and n_iter as constructed
C21_EmptyRegionRaises ==
    HasEmptyRegion => NeverResponded

\* the same for the center-surround cells alone, whose shares are divisions
\* by the length of the list
C21_CenterSurroundRaises ==
    (HasEmptyRegion /\ cell.kind = "bipolar") => NeverResponded

\* run() of a center-surround cell without surround inputs has raised
C21_Raised ==
    /\ cell.kind = "bipolar" /\ Len(cell.surround_input) = 0 /\ Len(cell.center_input) > 0
    /\ cell.exc = "ZeroDivisionError" /\ NeverResponded

----------------------------------------------------------------------------
(* Properties of the receptive field generators (SpecGeo) *)

Range(seq) == {seq[k] : k \in DOMAIN seq}
NoDuplicates(seq) == Cardinality(Range(seq)) = Len(seq)

\* the lattice points at Euclidean distance at most r from p
Disk(p, r) == {q \in ((p[1] - r)..(p[1] + r)) \X ((p[2] - r)..(p[2] + r)) : (q[1] - p[1]) * (q[1] - p[1]) + (q[2] - p[2]) * (q[2] - p[2]) <= r * r}
Area(r) == Cardinality(Disk(<<0, 0>>, r))

CsarfCall == geo.op = "get_csarf" /\ geo.ret # Pending /\ geo.receptive_field_shape[1] < geo.receptive_field_shape[2]

\* C10: for radii rc < rs and any position p, get_csarf returns two lists
\* without duplicates that are disjoint; the center list is the discrete disk
\* of radius rc around p (and holds p), the union of the two lists is the disk
\* of radius rs; for radii (1, 2) the sizes are area(disk 1) = 5 and
\* area(disk 2) - area(disk 1) = 8
C10_CsarfDisks ==
    CsarfCall =>
        LET rc == geo.receptive_field_shape[1]
            rs == geo.receptive_field_shape[2]
            p == geo.center_position
            center == geo.ret[1]
            surround == geo.ret[2]
        IN  /\ NoDuplicates(center) /\ NoDuplicates(surround)
            /\ Range(center) \cap Range(surround) = {}
            /\ Range(center) = Disk(p, rc)
            /\ p \in Range(center)
            /\ Range(center) \cup Range(surround) = Disk(p, rs)
            /\ (rc = 1 /\ rs = 2) =>
                  /\ Len(center) = Area(1) /\ Area(1) = 5
                  /\ Len(surround) = Area(2) - Area(1) /\ Area(2) - Area(1) = 8

\* a call with radii (1, 2) away from the origin has returned
C10_Witness ==
    /\ CsarfCall
    /\ geo.receptive_field_shape = <<1, 2>>
    /\ geo.center_position = <<2, 3>>
    /\ Len(geo.ret[1]) = 5 /\ Len(geo.ret[2]) = 8

\* a call of the oriented-field generator has returned or raised
OrientedCall == geo.op = "get_simple_pvc_receptive_field" /\ geo.exc # Pending
\* ... with an odd size and one of the four orientations
ValidOrientedCall ==
    /\ OrientedCall
    /\ geo.receptive_field_size % 2 = 1
    /\ geo.type_ \in {SIMPLE_PVC_TYPES[k] : k \in DOMAIN SIMPLE_PVC_TYPES}

\* the S x S window centred on position p
Window(p, S) == ((p[1] - S \div 2)..(p[1] + S \div 2)) \X ((p[2] - S \div 2)..(p[2] + S \div 2))

\* C11: for an odd size S, any orientation and any query position, every
\* position the oriented-field generator returns lies in the S x S window
\* centred on the query position, and the query position is in the on-region
C11_WindowCentred ==
    ValidOrientedCall =>
        /\ Range(geo.ret[1]) \cup Range(geo.ret[2]) \subseteq Window(geo.center_position, geo.receptive_field_size)
        /\ geo.center_position \in Range(geo.ret[1])

\* C12: for an odd size S and each orientation, the on-region and the
\* off-region are disjoint and hold each of the S*S window positions exactly
\* once, the whole central column and central row being in the on-region
C12_FullCoverage ==
    ValidOrientedCall =>
        LET S == geo.receptive_field_size
            p == geo.center_position
            on == geo.ret[1]
            off == geo.ret[2]
        IN  /\ NoDuplicates(on) /\ NoDuplicates(off)
            /\ Range(on) \cap Range(off) = {}
            /\ Len(on) + Len(off) = S * S
            /\ Range(on) \cup Range(off) = Window(p, S)
            /\ {q \in Window(p, S) : q[1] = p[1] \/ q[2] = p[2]} \subseteq Range(on)

\* the on-region the generator returns for another orientation, same call
OnRegionFor(type_) == Range(get_simple_pvc_receptive_field(geo.receptive_field_size, geo.center_position, type_)[1])

\* C13: for an odd size S >= 5 and one query position, the on-regions of the
\* four orientations are pairwise different sets of positions
C13_OnRegionsDiffer ==
    (ValidOrientedCall /\ geo.receptive_field_size >= 5) =>
        \A other \in {SIMPLE_PVC_TYPES[k] : k \in DOMAIN SIMPLE_PVC_TYPES} \ {geo.type_} :
            Range(geo.ret[1]) # OnRegionFor(other)

\* the left-inclined field of size 7 has been returned: 11 on-region positions
C13_Witness ==
    /\ ValidOrientedCall
    /\ geo.receptive_field_size = 7
    /\ geo.type_ = "left_inclined"
    /\ Len(geo.ret[1]) = 11 /\ Len(geo.ret[2]) = 32

\* the on-region and the off-region of each orientation for the size and
\* position of the call, those of the call's own orientation as returned
OnRegionOf(type_) == IF type_ = geo.type_ THEN Range(geo.ret[1]) ELSE OnRegionFor(type_)
OffRegionOf(type_) ==
    IF type_ = geo.type_ THEN Range(geo.ret[2])
    ELSE Range(get_simple_pvc_receptive_field(geo.receptive_field_size, geo.center_position, type_)[2])
Orientations == {SIMPLE_PVC_TYPES[k] : k \in DOMAIN SIMPLE_PVC_TYPES}
\* the positions the generator's loops go through: the vertical orientation
\* puts every one of them in a region; those of the column j = center are at
\* the column of the query position
GeneratedWindow == OnRegionOf("vertical") \cup OffRegionOf("vertical")

\* C30: for an odd size S and any query position, each position of the
\* generated window outside the generator's central column is in the
\* on-region of exactly one of the four orientations and in the off-region
\* of the other three
C30_BandsPartition ==
    ValidOrientedCall =>
        \A q \in GeneratedWindow :
            q[2] # geo.center_position[2] =>
                /\ Cardinality({type_ \in Orientations : q \in OnRegionOf(type_)}) = 1
                /\ Cardinality({type_ \in Orientations : q \in OffRegionOf(type_)}) = 3

\* the right-inclined field of size 7 has been returned: the position one up
\* and one to the right of the center is in its on-region, the position two
\* up and one to the right in its off-region and in the vertical on-region
C30_Witness ==
    /\ ValidOrientedCall /\ geo.type_ = "right_inclined"
    /\ geo.receptive_field_size = 7
    /\ <<geo.center_position[1] - 1, geo.center_position[2] + 1>> \in Range(geo.ret[1])
    /\ <<geo.center_position[1] - 2, geo.center_position[2] + 1>> \in Range(geo.ret[2])
    /\ <<geo.center_position[1] - 2, geo.center_position[2] + 1>> \in OnRegionOf("vertical")
    /\ \A type_ \in Orientations \ {"right_inclined"} :
          <<geo.center_position[1] - 1, geo.center_position[2] + 1>> \in OffRegionOf(type_)

\* C20: a call of the oriented-field generator with an orientation tag
\* outside the four orientations, or with an even field size, ends in an
\* error and returns no position lists
C20_InvalidFieldRejected ==
    (/\ OrientedCall
     /\ \/ geo.type_ \notin {SIMPLE_PVC_TYPES[k] : k \in DOMAIN SIMPLE_PVC_TYPES}
        \/ geo.receptive_field_size % 2 = 0)
    => geo.exc # "none"

----------------------------------------------------------------------------
(* Properties of the construction of the layers (SpecBuild) *)

\* the center-surround layer, the oriented layer has been constructed
GanglionsBuilt == pc.phase \in {"SimplePVCBinaryLayer", "built"} \/ (pc.phase = "raised" /\ pc.k = 2)
PVCBuilt == pc.phase = "built"

InBounds(positions, shape) == \A k \in DOMAIN positions : positions[k] \in Positions(shape)

\* the cell is wired to the cells at the positions of the two lists
GanglionWired(c, field) == c.center_input = field[1] /\ c.surround_input = field[2]
PVCWired(c, field) == c.on_region_input = field[1] /\ c.off_region_input = field[2]

\* C14: in a center-surround layer built with surround radius rs on a layer
\* of shape (R, C), R, C > 2*rs, every center and surround input position of
\* every cell (i, j) is a position of the previous layer, the on cell and the
\* off cell are wired to exactly these positions, and the field is the disk
\* of radius rs centred on (i + rs, j + rs)
C14_CsarfWiredInBounds ==
    (/\ GanglionsBuilt
     /\ rods.shape[1] > 2 * params.receptive_field_shape[2]
     /\ rods.shape[2] > 2 * params.receptive_field_shape[2])
    => \A p \in Positions(ganglions.shape) :
          LET rs == params.receptive_field_shape[2]
              field == GanglionsBinaryLayer_input_positions(p, params.receptive_field_shape)
          IN  /\ InBounds(field[1], rods.shape) /\ InBounds(field[2], rods.shape)
              /\ GanglionWired(ganglions.on_cells[p], field)
              /\ GanglionWired(ganglions.off_cells[p], field)
              /\ Range(field[1]) \cup Range(field[2]) = Disk(<<p[1] + rs, p[2] + rs>>, rs)

\* a layer of 1 x 2 cells with fields of radii (1, 2) on a 5 x 6 layer: the
\* last cell's center is wired around (2, 3)
C14_Witness ==
    /\ GanglionsBuilt
    /\ params.receptive_field_shape = <<1, 2>>
    /\ rods.shape = <<FrameSide, FrameSide>>
    /\ ganglions.shape = <<FrameSide - 4, FrameSide - 4>>
    /\ <<2, 2>> \in Range(ganglions.on_cells[<<0, 0>>].center_input)
    /\ Len(ganglions.off_cells[<<FrameSide - 5, FrameSide - 5>>].surround_input) = 8

\* C15: in an oriented layer built with an odd field size S on a layer of
\* shape (R, C), R, C >= S, every on-region and off-region input position of
\* every cell, for each orientation, is a position of the previous layer, and
\* the cell is wired to exactly these positions (no index wraps around)
C15_OrientedWiredInBounds ==
    (/\ PVCBuilt
     /\ params.receptive_field_size % 2 = 1
     /\ ganglions.shape[1] >= params.receptive_field_size
     /\ ganglions.shape[2] >= params.receptive_field_size)
    => \A type_ \in PVCTypes : \A p \in Positions(pvc.shape) :
          LET field == SimplePVCBinaryLayer_input_positions(p, params.receptive_field_size, type_)
          IN  /\ InBounds(field[1], ganglions.shape) /\ InBounds(field[2], ganglions.shape)
              /\ PVCWired(pvc.cells[type_][p], field)

----------------------------------------------------------------------------
(* Properties of the accessors (SpecAccess) *)

\* the pipeline as run() and the accessors see it
Pipeline == <<source, rods, ganglions, pvc, eye>>
Holds == client.of # "none"
\* this step is a write of the caller, a call of an accessor, a step of run()
CallerWrote == client'.writes = client.writes + 1
AccessorCalled == pc' = pc /\ client' # client /\ ~CallerWrote
RunStepped == pc' # pc

\* C17: what get_ganglion_response(), get_pvc_response() and get_input()
\* return is a copy: a write of the caller into it changes no response
\* grid, no cell and no counter of the pipeline (so no later accessor
\* result), a step of a later run() leaves the grid the caller holds as it
\* is, and a call of an accessor changes nothing of the pipeline
C17_DefensiveCopies ==
    [][/\ CallerWrote => Pipeline' = Pipeline
       /\ (RunStepped /\ Holds) => Deref(client)' = Deref(client)
       /\ AccessorCalled => Pipeline' = Pipeline]_vars

\* the caller took the center-surround grids after the first run(), wrote
\* into them, and a second run() has returned: the layer's grids are as the
\* run left them, the caller's as the caller left them
C17_Witness ==
    /\ pc.phase = "idle" /\ eye.n_iter = 2
    /\ client.of = "get_ganglion_response"
    /\ client.taken = 1 /\ client.writes = 1
    /\ Deref(client) # ganglions.response
    /\ \A p \in Positions(ganglions.shape) :
          /\ ganglions.response[1][p] = ganglions.on_cells[p].response
          /\ ganglions.response[2][p] = ganglions.off_cells[p].response

\* the image the source is at: number min(n_iter, L) of its list of L images
ImageNo(src) == IF src.n_iter >= Len(src.images.data) THEN Len(src.images.data) ELSE src.n_iter
\* run() calls that have taken their frame
FramesTaken == IF pc.phase = "receptors" /\ pc.k = 0 THEN eye.runs - 1 ELSE eye.runs
\* this step is a call of get_input() that has returned
InputReturned == pc' = pc /\ client' # client /\ client'.of = "get_input" /\ client'.writes = 0

\* C24: every run() of the pipeline takes one frame from the source: the
\* source's counter is the number of run() calls that have taken their
\* frame, the frame of the k-th run() is image number min(k, L) of the list
\* of L >= 1 images, binarized, and it is the leaf layer's input; get_input()
\* returns the frame of the last get_frame() and leaves the source as it is
C24_OneFramePerRun ==
    /\ [](/\ source.n_iter = FramesTaken
          /\ source.n_iter > 0 =>
                /\ source.frame = ImagesGet_binarize_frame(source.images.data[ImageNo(source)])
                /\ rods.input_ = source.frame)
    /\ [][InputReturned => (client'.value = source.frame /\ source' = source)]_vars

\* the second run() on a list of one image has returned, on the frame of the
\* one image, and get_input() has returned that frame
C24_Witness ==
    /\ pc.phase = "idle" /\ eye.n_iter = 2
    /\ Len(source.images.data) = 1 /\ source.n_iter = 2
    /\ rods.response = ImagesGet_binarize_frame(source.images.data[1])
    /\ client.of = "get_input" /\ client.taken = 2 /\ client.writes = 0
    /\ client.value = rods.input_

\* the second run() on a list of two different images has used the second
C24_SecondImage ==
    /\ pc.phase = "idle" /\ eye.n_iter = 2
    /\ Len(source.images.data) = 2 /\ source.images.data[1] # source.images.data[2]
    /\ rods.response = ImagesGet_binarize_frame(source.images.data[2])
    /\ rods.response # ImagesGet_binarize_frame(source.images.data[1])

----------------------------------------------------------------------------
(* Properties of the mechanical eye (SpecEye) *)

EyeConstructed == pc.phase = "constructed"
Within(x, bounds) == bounds[1] <= x /\ x <= bounds[2]
\* where the last move() asked the center to be
Requested == <<pc.from[1] + pc.displacement[1], pc.from[2] + pc.displacement[2]>>
\* the value of bounds nearest to x
Nearest(x, bounds) == IF x < bounds[1] THEN bounds[1] ELSE IF x > bounds[2] THEN bounds[2] ELSE x

\* center, corners and frame of the eye fit together and lie in the image
EyeInPlace ==
    LET half == source.field_size \div 2
    IN  /\ \A a \in 1..2 :
              /\ Within(source.center_position[a], source.boundaries[a])
              /\ source.point1[a] = source.center_position[a] - half
              /\ source.point2[a] = source.point1[a] + source.field_size - 1
              /\ 0 <= source.point1[a] /\ source.point2[a] <= source.shape[a] - 1
        /\ DOMAIN source.frame = Positions(<<source.field_size, source.field_size>>)
        /\ \A q \in Positions(<<source.field_size, source.field_size>>) :
              source.frame[q] = source.image[<<source.point1[1] + q[1], source.point1[2] + q[2]>>]

\* bound_reached tells whether the last call asked for a center outside the
\* boundaries, and each axis is where it was asked to be or at the nearest
\* boundary
EyeBoundReached ==
    IF pc.op = "move"
    THEN /\ source.bound_reached <=> \E a \in 1..2 : ~Within(Requested[a], source.boundaries[a])
         /\ \A a \in 1..2 : source.center_position[a] = Nearest(Requested[a], source.boundaries[a])
    ELSE ~source.bound_reached

\* C25: for a MechanicalEye on an image at least field_size in each
\* dimension, after construction and after every move(displacement) and
\* move_initial(): the center is within the boundaries on both axes, point1 =
\* center - field_size // 2, point2 = point1 + field_size - 1, the frame is
\* the field_size x field_size part of the image between point1 and point2,
\* inside the image, and bound_reached is true exactly when the last move
\* asked for a center outside the boundaries on an axis, that axis being
\* set to the nearest boundary and the other moved as asked
C25_EyeStaysInImage ==
    EyeConstructed => (EyeInPlace /\ EyeBoundReached)

\* the same where the boundaries leave the center a place: odd field sizes,
\* and even ones on an image larger than the field
C25_HoldsWithRoom ==
    (EyeConstructed /\ (source.field_size % 2 = 1 \/ source.shape[1] > source.field_size))
    => (EyeInPlace /\ EyeBoundReached)

\* a move() of the eye off the lower right corner has been stopped on one
\* axis and carried out on the other
C25_Stopped ==
    /\ EyeConstructed /\ pc.op = "move" /\ source.bound_reached
    /\ source.field_size = 2 /\ source.shape = <<MaxEyeSide, MaxEyeSide>>
    /\ source.center_position[1] = source.boundaries[1][2]
    /\ source.center_position[1] < Requested[1]
    /\ pc.displacement[2] # 0 /\ source.center_position[2] = Requested[2]

\* an even field as large as the image: after a move() the frame is empty
C25_EmptyFrame ==
    /\ EyeConstructed /\ pc.op = "move"
    /\ source.field_size = source.shape[1]
    /\ DOMAIN source.frame = {}

\* an image that is not square: the constructor raises
C25_NotSquare == pc.phase = "raised" /\ pc.op = "ValueError"

----------------------------------------------------------------------------
(* Properties of the leaf layer on a frame of another shape (SpecFrame) *)

\* the source has delivered a frame that has not the leaf layer's shape
FrameMismatch == source.n_iter > 0 /\ DOMAIN source.frame # Positions(rods.shape)

\* no cell, grid entry or counter differs from its value at construction
LeafUntouched ==
    /\ rods.n_iter = 0 /\ ganglions.n_iter = 0 /\ pvc.n_iter = 0 /\ eye.n_iter = 0
    /\ \A p \in Positions(rods.shape) : rods.cells[p].n_iter = 0 /\ rods.cells[p].response = 0
    /\ rods.response = Empty(rods.shape)

\* C22: when the frame the source delivers has not the leaf layer's shape,
\* the leaf layer's run() ends in an error and performs no partial iteration:
\* every leaf cell's response, every entry of the response grid and every
\* counter of a cell or layer keeps the value it had before the call (here
\* the value it was constructed with, every frame of the source being of
\* another shape)
C22_MismatchRejected ==
    FrameMismatch => (LeafUntouched /\ pc.phase \in {"receptors", "raised"})

\* a frame that is a column short: run() has raised after a part of the sweep
C22_PartialIteration ==
    /\ FrameMismatch /\ pc.phase = "raised" /\ eye.raised = "IndexError"
    /\ rods.cells[<<0, 0>>].n_iter = 1 /\ rods.n_iter = 0
    /\ \E p \in Positions(rods.shape) : rods.cells[p].n_iter = 0

\* a frame that is a row and a column too many: run() has returned
C22_LargerAccepted ==
    /\ FrameMismatch /\ pc.phase = "idle" /\ eye.n_iter = 1 /\ eye.raised = "none"
    /\ \A p \in Positions(rods.shape) : rods.response[p] = source.frame[p]

----------------------------------------------------------------------------
(* Properties of the pipeline (Spec, SpecSweep) *)

\* run() calls of the pipeline that have returned
Completed == IF pc.phase = "idle" THEN eye.runs ELSE eye.runs - 1
NeverRaised == eye.raised = "none"
\* 1 when the current run() call has passed the place, else 0
Passed(cond) == IF cond THEN 1 ELSE 0
AfterReceptors == pc.phase \in {"ganglions", "pvc", "finish"}
AfterGanglions == pc.phase \in {"pvc", "finish"}
RodRan(k) == AfterReceptors \/ (pc.phase = "receptors" /\ pc.k > k)
GanglionRan(k) == AfterGanglions \/ (pc.phase = "ganglions" /\ pc.k > k)
PVCRan(k) == pc.phase = "finish" \/ (pc.phase = "pvc" /\ pc.k > k)
GanglionCellNo(k) == IF k % 2 = 1 THEN ganglions.on_cells[PositionOf((k + 1) \div 2, ganglions.shape)] ELSE ganglions.off_cells[PositionOf((k + 1) \div 2, ganglions.shape)]
PVCCellNo(k) == pvc.cells[PVCTypeOf(k, pvc.shape)][PVCPositionOf(k, pvc.shape)]
NumGanglionCells == 2 * NumCells(ganglions.shape)
NumPVCCells == Len(SIMPLE_PVC_TYPES) * NumCells(pvc.shape)

\* C7: from a pipeline constructed with all counters 0, after run() has
\* returned N times the n_iter of the pipeline, of the three layers and of
\* every cell is N; inside a call each layer and each cell has its counter
\* raised by exactly one once its own run() has returned
C7_CountersFollowRuns ==
    NeverRaised =>
        /\ eye.n_iter = Completed
        /\ rods.n_iter = Completed + Passed(AfterReceptors)
        /\ ganglions.n_iter = Completed + Passed(AfterGanglions)
        /\ pvc.n_iter = Completed + Passed(pc.phase = "finish")
        /\ \A k \in 1..NumCells(rods.shape) : rods.cells[PositionOf(k, rods.shape)].n_iter = Completed + Passed(RodRan(k))
        /\ \A k \in 1..NumGanglionCells : GanglionCellNo(k).n_iter = Completed + Passed(GanglionRan(k))
        /\ \A k \in 1..NumPVCCells : PVCCellNo(k).n_iter = Completed + Passed(PVCRan(k))

\* two calls of run() have returned and every counter stands at two
C7_Witness ==
    /\ pc.phase = "idle" /\ eye.runs = 2 /\ NeverRaised
    /\ eye.n_iter = 2 /\ rods.n_iter = 2 /\ ganglions.n_iter = 2 /\ pvc.n_iter = 2
    /\ \A p \in Positions(rods.shape) : rods.cells[p].n_iter = 2
    /\ \A p \in Positions(ganglions.shape) : ganglions.on_cells[p].n_iter = 2 /\ ganglions.off_cells[p].n_iter = 2
    /\ \A ty \in PVCTypes : \A p \in Positions(pvc.shape) : pvc.cells[ty][p].n_iter = 2
    /\ pvc.cells["vertical"][<<0, 0>>].input_sublayer_type = "both"

\* a cell as it is before its first run()
Unrun(c) == [c EXCEPT !.response = 0, !.n_iter = 0]

\* what run() is to leave alone: the shapes and field parameters of the
\* layers, their grids of cells, every cell's input lists and parameters
Wiring ==
    [ganglions |-> [receptive_field_shape |-> ganglions.receptive_field_shape,
                    shape |-> ganglions.shape,
                    on_cells |-> [p \in DOMAIN ganglions.on_cells |-> Unrun(ganglions.on_cells[p])],
                    off_cells |-> [p \in DOMAIN ganglions.off_cells |-> Unrun(ganglions.off_cells[p])]],
     pvc |-> [receptive_field_size |-> pvc.receptive_field_size,
              input_sublayer_type |-> pvc.input_sublayer_type,
              shape |-> pvc.shape,
              cells |-> [type_ \in DOMAIN pvc.cells |-> [p \in DOMAIN pvc.cells[type_] |-> Unrun(pvc.cells[type_][p])]]],
     rods |-> [shape |-> rods.shape, cells |-> DOMAIN rods.cells]]

\* the layers are shaped and wired as their constructors shape and wire them
AsConstructed ==
    LET rf == ganglions.receptive_field_shape
        S == pvc.receptive_field_size
    IN  /\ ganglions.shape = <<rods.shape[1] - 2 * rf[2], rods.shape[2] - 2 * rf[2]>>
        /\ pvc.shape = <<ganglions.shape[1] - (S - 1), ganglions.shape[2] - (S - 1)>>
        /\ DOMAIN ganglions.on_cells = Positions(ganglions.shape)
        /\ DOMAIN ganglions.off_cells = Positions(ganglions.shape)
        /\ \A p \in Positions(ganglions.shape) :
              /\ Unrun(ganglions.on_cells[p]) =
                    GanglionsBinaryLayer_create_cell(p, 1, rods.shape, rf,
                        ganglions.on_cells[p].tolerance,
                        ganglions.on_cells[p].center_threshold,
                        ganglions.on_cells[p].surround_threshold)
              /\ Unrun(ganglions.off_cells[p]) =
                    GanglionsBinaryLayer_create_cell(p, -1, rods.shape, rf,
                        ganglions.off_cells[p].tolerance,
                        ganglions.off_cells[p].center_threshold,
                        ganglions.off_cells[p].surround_threshold)
        /\ \A type_ \in PVCTypes :
              /\ DOMAIN pvc.cells[type_] = Positions(pvc.shape)
              /\ \A p \in Positions(pvc.shape) :
                    Unrun(pvc.cells[type_][p]) =
                        SimplePVCBinaryLayer_create_cell(p, type_, ganglions.shape, S,
                            pvc.input_sublayer_type,
                            pvc.cells[type_][p].regions_tolerance,
                            pvc.cells[type_][p].on_region_threshold,
                            pvc.cells[type_][p].off_region_threshold)

\* C16: the shape of the center-surround layer is the previous layer's shape
\* minus 2 * surround_radius on each axis, the shape of the oriented layer the
\* previous layer's shape minus (S - 1) on each axis, and no step of any run()
\* call changes a shape, the number of cells or a cell's input lists: run()
\* changes only responses, the input snapshot and the counters
C16_ShapeAndWiringFixed == AsConstructed /\ [][Wiring' = Wiring]_vars

\* two calls of run() have returned: the layers are 5 x 5, 3 x 3 and 1 x 1, a
\* center-surround cell and an oriented cell have responded
C16_Witness ==
    /\ pc.phase = "idle" /\ eye.n_iter = 2 /\ NeverRaised
    /\ rods.shape = <<FrameSide, FrameSide>>
    /\ ganglions.shape = <<FrameSide - 2, FrameSide - 2>>
    /\ pvc.shape = <<FrameSide - 4, FrameSide - 4>>
    /\ \E p \in Positions(ganglions.shape) : ganglions.on_cells[p].response = 1
    /\ \E type_ \in PVCTypes : pvc.cells[type_][<<0, 0>>].response = 1

\* the policy test of oriented cell c on the responses, as they are, of the
\* cells of one sub-layer at the cell's on-region and off-region positions;
\* the shares are the floats np.mean gives
PVCTest(c, sublayer_cells) ==
    LET on_share == Mean(Responses(c.on_region_input, sublayer_cells))
        off_share == Mean(Responses(c.off_region_input, sublayer_cells))
    IN  IF c.regions_tolerance = "constant"
        THEN /\ FlGeq(on_share, FlOf(c.on_region_threshold))
             /\ FlLeq(off_share, FlOf(c.off_region_threshold))
        ELSE PassesTolerance(c.regions_tolerance, on_share, off_share,
                             c.on_region_threshold, c.off_region_threshold)

\* C18: an oriented cell that has run in this iteration responds, in 'both'
\* mode, 1 exactly when the test passes on the on-center sub-layer and,
\* evaluated on its own, on the off-center sub-layer at the same positions;
\* in 'on-center' or 'off-center' mode exactly when the one test passes on
\* that sub-layer's responses, not complemented
C18_BothBranchesAnd ==
    NeverRaised =>
        \A k \in 1..NumPVCCells :
            PVCRan(k) =>
                LET c == PVCCellNo(k)
                IN  (c.response = 1) <=>
                        IF c.input_sublayer_type = "both"
                        THEN PVCTest(c, ganglions.on_cells) /\ PVCTest(c, ganglions.off_cells)
                        ELSE IF c.input_sublayer_type = "on-center"
                        THEN PVCTest(c, ganglions.on_cells)
                        ELSE PVCTest(c, ganglions.off_cells)

\* a run() has ended in which a cell in 'both' mode passed the test on the
\* on-center sub-layer and the test on the off-center sub-layer and
\* responded 1
C18_Witness ==
    /\ pc.phase = "finish" /\ NeverRaised
    /\ \E type_ \in PVCTypes :
          LET c == pvc.cells[type_][<<0, 0>>]
          IN  /\ c.input_sublayer_type = "both"
              /\ PVCTest(c, ganglions.on_cells)
              /\ PVCTest(c, ganglions.off_cells)
              /\ c.response = 1 /\ c.n_iter = eye.n_iter + 1

\* a run() has ended in which a cell in 'both' mode passed the test on the
\* on-center sub-layer, failed it on the off-center one and responded 0
C18_OffBranchFails ==
    /\ pc.phase = "finish" /\ NeverRaised
    /\ \E type_ \in PVCTypes :
          LET c == pvc.cells[type_][<<0, 0>>]
          IN  /\ c.input_sublayer_type = "both"
              /\ PVCTest(c, ganglions.on_cells)
              /\ ~PVCTest(c, ganglions.off_cells)
              /\ c.response = 0 /\ c.n_iter = eye.n_iter + 1

\* the same with the test failed on the on-center sub-layer only
C18_OnBranchFails ==
    /\ pc.phase = "finish" /\ NeverRaised
    /\ \E type_ \in PVCTypes :
          LET c == pvc.cells[type_][<<0, 0>>]
          IN  /\ c.input_sublayer_type = "both"
              /\ ~PVCTest(c, ganglions.on_cells)
              /\ PVCTest(c, ganglions.off_cells)
              /\ c.response = 0 /\ c.n_iter = eye.n_iter + 1

\* a run() has ended in which a cell in 'on-center' mode responded 1 where
\* the test fails on the off-center sub-layer
C18_SingleWitness ==
    /\ pc.phase = "finish" /\ NeverRaised
    /\ \E type_ \in PVCTypes :
          LET c == pvc.cells[type_][<<0, 0>>]
          IN  /\ c.input_sublayer_type = "on-center"
              /\ ~PVCTest(c, ganglions.off_cells)
              /\ c.response = 1

\* a run() has ended in which a cell in 'off-center' mode responded 1 where
\* the test fails on the on-center sub-layer
C18_OffCenterWitness ==
    /\ pc.phase = "finish" /\ NeverRaised
    /\ \E type_ \in PVCTypes :
          LET c == pvc.cells[type_][<<0, 0>>]
          IN  /\ c.input_sublayer_type = "off-center"
              /\ ~PVCTest(c, ganglions.on_cells)
              /\ c.response = 1

\* a cell in 'off-center' mode has run and responded 0 where the test passes
\* on the on-center sub-layer
C18_OffCenterSilent ==
    /\ pc.phase = "finish" /\ NeverRaised
    /\ \E type_ \in PVCTypes :
          LET c == pvc.cells[type_][<<0, 0>>]
          IN  /\ c.input_sublayer_type = "off-center"
              /\ PVCTest(c, ganglions.on_cells)
              /\ c.response = 0 /\ c.n_iter = eye.n_iter + 1

\* every entry of the leaf grid, of the on-center and off-center grids and
\* of the four orientation grids is 0 or 1
\* every entry of every response grid is 0 or 1, whatever the entries not
\* written hold
GridsBinary ==
    /\ \A p \in Positions(rods.shape) : HoldsOnly(rods.response[p], {0, 1})
    /\ \A k \in 1..2 : \A p \in Positions(ganglions.shape) : HoldsOnly(ganglions.response[k][p], {0, 1})
    /\ \A type_ \in PVCTypes : \A p \in Positions(pvc.shape) : HoldsOnly(pvc.response[type_][p], {0, 1})

\* C23: whenever a response grid can be read, after construction and before
\* the first run() and after any number of run() calls, every entry of every
\* response grid is 0 or 1
C23_GridsAlwaysBinary ==
    pc.phase = "idle" => GridsBinary

\* after construction and before the first run() an entry may hold 2
C23_UnwrittenAfterConstruction ==
    /\ pc.phase = "idle" /\ eye.n_iter = 0 /\ eye.raised = "none"
    /\ \A p \in Positions(rods.shape) : 2 \in Held(rods.response[p])
    /\ \A k \in 1..2 : \A p \in Positions(ganglions.shape) : 2 \in Held(ganglions.response[k][p])
    /\ \A type_ \in PVCTypes : \A p \in Positions(pvc.shape) : 2 \in Held(pvc.response[type_][p])

\* a run() has raised part-way through the leaf layer's sweep (SpecFrame):
\* the leaf grid holds a response where a cell has run, and the entries
\* behind it and those of the following layers may still hold 2
C23_UnwrittenAfterRaise ==
    /\ pc.phase = "raised" /\ eye.raised = "IndexError"
    /\ rods.response[<<0, 0>>] = rods.cells[<<0, 0>>].response
    /\ \E p \in Positions(rods.shape) : 2 \in Held(rods.response[p])
    /\ \A k \in 1..2 : \A p \in Positions(ganglions.shape) : 2 \in Held(ganglions.response[k][p])

\* the same once a run() has returned
C23_BinaryAfterRun ==
    (pc.phase = "idle" /\ eye.n_iter > 0) => GridsBinary

\* a run() has returned and grids of all three layers hold both values
C23_RunReturned ==
    /\ pc.phase = "idle" /\ eye.n_iter > 0 /\ GridsBinary
    /\ \E p \in Positions(ganglions.shape) : ganglions.response[1][p] = 1
    /\ \E type_ \in PVCTypes : pvc.response[type_][<<0, 0>>] = 1

\* the grids of a layer hold the responses its cells have now
RodsGridCurrent == \A p \in Positions(rods.shape) : rods.response[p] = rods.cells[p].response
GanglionsGridsCurrent ==
    \A p \in Positions(ganglions.shape) :
        /\ ganglions.response[1][p] = ganglions.on_cells[p].response
        /\ ganglions.response[2][p] = ganglions.off_cells[p].response
PVCGridsCurrent ==
    \A type_ \in PVCTypes : \A p \in Positions(pvc.shape) :
        pvc.response[type_][p] = pvc.cells[type_][p].response

\* C26: once a run() of a layer has returned, and as long as the layer is
\* not inside its next run(), every entry of each of its response grids is
\* the response its cell has now (center-surround layer: grid 0 the
\* on-center cells, grid 1 the off-center cells; oriented layer: one grid
\* per orientation); this stays so while the following layers run
C26_GridsMirrorCells ==
    NeverRaised =>
        /\ (rods.n_iter > 0 /\ pc.phase # "receptors") => RodsGridCurrent
        /\ (ganglions.n_iter > 0 /\ pc.phase # "ganglions") => GanglionsGridsCurrent
        /\ (pvc.n_iter > 0 /\ pc.phase # "pvc") => PVCGridsCurrent

\* the oriented layer is in its second sweep, after the leaf layer and the
\* center-surround layer have run twice: their grids hold the responses of
\* their cells, on-center and off-center grid differ, and the oriented grids
\* still hold the responses of the first run
C26_Witness ==
    /\ NeverRaised /\ eye.n_iter = 1 /\ pc.phase = "pvc" /\ pc.k > 1
    /\ rods.n_iter = 2 /\ ganglions.n_iter = 2 /\ pvc.n_iter = 1
    /\ RodsGridCurrent /\ GanglionsGridsCurrent
    /\ \E p \in Positions(ganglions.shape) : ganglions.response[1][p] = 1 /\ ganglions.response[2][p] = 0
    /\ \E p \in Positions(rods.shape) : rods.response[p] = 1

\* the cells a center-surround cell reads
GanglionReads(c) == Range(c.center_input) \cup Range(c.surround_input)
\* the cells an oriented cell reads, of the on sub-layer and of the off sub-layer
PVCReads(c) == Range(c.on_region_input) \cup Range(c.off_region_input)
ReadsOn(c) == c.input_sublayer_type \in {"on-center", "both"}
ReadsOff(c) == c.input_sublayer_type \in {"off-center", "both"}

\* C8: in every run() the layers are swept leaf layer, center-surround
\* layer, oriented layer, each sweep finished before the next begins; when a
\* center-surround or oriented cell is about to compute its response, every
\* cell it reads has run in this iteration: its n_iter is the reader's + 1
C8_LayersInOrder ==
    NeverRaised =>
        /\ pc.phase = "receptors" =>
              /\ \A k \in 1..NumGanglionCells : GanglionCellNo(k).n_iter = eye.n_iter
              /\ \A k \in 1..NumPVCCells : PVCCellNo(k).n_iter = eye.n_iter
        /\ pc.phase = "ganglions" =>
              /\ rods.n_iter = eye.n_iter + 1
              /\ \A p \in Positions(rods.shape) : rods.cells[p].n_iter = eye.n_iter + 1
              /\ \A k \in 1..NumPVCCells : PVCCellNo(k).n_iter = eye.n_iter
        /\ pc.phase = "pvc" =>
              /\ rods.n_iter = eye.n_iter + 1 /\ ganglions.n_iter = eye.n_iter + 1
              /\ \A k \in 1..NumGanglionCells : GanglionCellNo(k).n_iter = eye.n_iter + 1
        /\ (pc.phase = "ganglions" /\ pc.k \in 1..NumGanglionCells) =>
              \A q \in GanglionReads(GanglionCellNo(pc.k)) : rods.cells[q].n_iter = GanglionCellNo(pc.k).n_iter + 1
        /\ (pc.phase = "pvc" /\ pc.k \in 1..NumPVCCells) =>
              \A q \in PVCReads(PVCCellNo(pc.k)) :
                  /\ ReadsOn(PVCCellNo(pc.k)) => ganglions.on_cells[q].n_iter = PVCCellNo(pc.k).n_iter + 1
                  /\ ReadsOff(PVCCellNo(pc.k)) => ganglions.off_cells[q].n_iter = PVCCellNo(pc.k).n_iter + 1

\* in the second run() an oriented cell fed by both sub-layers is about to
\* read cells that have run twice
C8_Witness ==
    /\ NeverRaised /\ eye.n_iter = 1
    /\ pc.phase = "pvc" /\ pc.k = 3
    /\ PVCCellNo(3).input_sublayer_type = "both"
    /\ PVCCellNo(3).n_iter = 1
    /\ PVCReads(PVCCellNo(3)) # {}
    /\ \A q \in PVCReads(PVCCellNo(3)) : ganglions.on_cells[q].n_iter = 2 /\ ganglions.off_cells[q].n_iter = 2

\* the response a cell computes from the cells it reads as they are now
GanglionExpected(c) ==
    BipolarBinaryCell_calculate_response(
        Responses(c.center_input, rods.cells),
        Responses(c.surround_input, rods.cells),
        c.center_type, c.tolerance, c.center_threshold, c.surround_threshold).val
PVCExpected(c) ==
    SimplePVCBinaryCell_response(
        c.input_sublayer_type,
        PVCInputs(c.input_sublayer_type, c.on_region_input, ganglions.on_cells, ganglions.off_cells),
        PVCInputs(c.input_sublayer_type, c.off_region_input, ganglions.on_cells, ganglions.off_cells),
        c.regions_tolerance, c.on_region_threshold, c.off_region_threshold,
        c.response).val

\* C9: when the loop of a layer has run all its cells, in the order of the
\* source or in any other order and from whatever responses the cells held,
\* its response grid is the function of the previous layer alone: every
\* entry is the response its cell computes from the finished previous layer
C9_SweepOrderFree ==
    /\ (pc.phase = "receptors" /\ pc.k = NumCells(rods.shape) + 1) =>
          \A p \in Positions(rods.shape) :
              rods.response[p] = source.frame[p] /\ rods.cells[p].response = source.frame[p]
    /\ (pc.phase = "ganglions" /\ pc.k = NumGanglionCells + 1) =>
          \A p \in Positions(ganglions.shape) :
              /\ ganglions.response[1][p] = GanglionExpected(ganglions.on_cells[p])
              /\ ganglions.response[2][p] = GanglionExpected(ganglions.off_cells[p])
              /\ ganglions.on_cells[p].response = ganglions.response[1][p]
              /\ ganglions.off_cells[p].response = ganglions.response[2][p]
    /\ (pc.phase = "pvc" /\ pc.k = NumPVCCells + 1) =>
          \A ty \in PVCTypes : \A p \in Positions(pvc.shape) :
              /\ pvc.response[ty][p] = PVCExpected(pvc.cells[ty][p])
              /\ pvc.cells[ty][p].response = pvc.response[ty][p]

\* the second sweep of the center-surround layer has ended after its cells
\* ran out of the order of the source, with responses of both values
C9_Witness ==
    /\ params.order = "ganglions" /\ pc.shuffled
    /\ pc.phase = "ganglions" /\ pc.k = NumGanglionCells + 1
    /\ eye.runs = 2
    /\ \E p \in Positions(ganglions.shape) : ganglions.response[1][p] = 1
    /\ \E p \in Positions(ganglions.shape) : ganglions.response[2][p] = 0

----------------------------------------------------------------------------
(* Properties of the two polarities (SpecPolar) *)

\* the center-surround layer has run on the frame the leaf layer holds
GanglionsUpToDate ==
    /\ eye.raised = "none"
    /\ pc.phase \in {"pvc", "finish"} \/ (pc.phase = "idle" /\ eye.n_iter > 0)

\* the response a cell wired as c and of the given polarity computes when
\* the leaf layer has run on the complement of its frame
OnComplement(c, center_type) ==
    BipolarBinaryCell_calculate_response(
        Complement(Responses(c.center_input, rods.cells)),
        Complement(Responses(c.surround_input, rods.cells)),
        center_type, c.tolerance, c.center_threshold, c.surround_threshold).val

\* C27: for every binary frame F, every policy and every pair of thresholds
\* the off-center grid of the center-surround layer after a run on F is the
\* on-center grid the layer has after a run on the complement of F, and the
\* on-center grid on F the off-center grid on the complement
C27_OnOffDuality ==
    GanglionsUpToDate =>
        \A p \in Positions(ganglions.shape) :
            /\ ganglions.response[2][p] = OnComplement(ganglions.on_cells[p], 1)
            /\ ganglions.response[1][p] = OnComplement(ganglions.off_cells[p], -1)

\* for every share k / n of the cell, on the frame or on its complement, the
\* float 1 - k / n is the float (n - k) / n
Unrounded(c) ==
    \A vals \in {Responses(c.center_input, rods.cells), Responses(c.surround_input, rods.cells)} :
        /\ FlSub(FlOne, FlOf(ShareOf(vals))) = FlOf(RSub(One, ShareOf(vals)))
        /\ FlSub(FlOne, FlOf(RSub(One, ShareOf(vals)))) = FlOf(ShareOf(vals))

\* the same for the cells whose shares are complemented without rounding
C27_DualityUnrounded ==
    GanglionsUpToDate =>
        \A p \in Positions(ganglions.shape) :
            Unrounded(ganglions.on_cells[p]) =>
                /\ ganglions.response[2][p] = OnComplement(ganglions.on_cells[p], 1)
                /\ ganglions.response[1][p] = OnComplement(ganglions.off_cells[p], -1)

\* four of the five center cells are lit and the center threshold is 1/5:
\* the off-center cell has computed 1 - 4 / 5 < 1/5 and responded 0, on the
\* complement the on-center cell computes 1 / 5 and responds 1
C27_RoundedBelowThreshold ==
    /\ GanglionsUpToDate
    /\ \E p \in Positions(ganglions.shape) :
          /\ ganglions.off_cells[p].tolerance = "constant"
          /\ Sum(Responses(ganglions.off_cells[p].center_input, rods.cells)) = 4
          /\ Len(ganglions.off_cells[p].center_input) = 5
          /\ ganglions.off_cells[p].center_threshold = Rat(1, 5)
          /\ ganglions.response[2][p] = 0
          /\ OnComplement(ganglions.on_cells[p], 1) = 1

\* the second run, on the complement of the first frame, has passed the
\* center-surround layer with every share complemented without rounding and
\* an off-center response of 1
C27_SecondFrame ==
    /\ GanglionsUpToDate /\ eye.n_iter = 1 /\ pc.phase = "finish"
    /\ \E p \in Positions(ganglions.shape) :
          /\ Unrounded(ganglions.on_cells[p])
          /\ ganglions.response[2][p] = 1 /\ ganglions.response[1][p] = 0

\* both cells at p respond 1
BothRespond(p) == ganglions.on_cells[p].response = 1 /\ ganglions.off_cells[p].response = 1
Half == Rat(1, 2)

\* C28: in a center-surround layer with center_threshold > 1/2, under each
\* of the three policies and on every frame, once the layer's run() has
\* returned the on-center cell and the off-center cell of a position do not
\* both have response 1
C28_PolaritiesExclusive ==
    (eye.raised = "none" /\ pc.phase # "ganglions") =>
        \A p \in Positions(ganglions.shape) :
            RGt(ganglions.on_cells[p].center_threshold, Half) => ~BothRespond(p)

\* with center_threshold 3/4 under the linear policy the layer has run on a
\* frame and on its complement: the off-center cell of a position answers
\* now, the on-center cell does not
C28_Witness ==
    /\ GanglionsUpToDate /\ eye.n_iter = 1 /\ ganglions.n_iter = 2
    /\ \E p \in Positions(ganglions.shape) :
          /\ ganglions.on_cells[p].center_threshold = Rat(3, 4)
          /\ ganglions.on_cells[p].tolerance = "linear"
          /\ ganglions.on_cells[p].response = 0
          /\ ganglions.off_cells[p].response = 1

\* with center_threshold 1/5 both cells of a position respond 1
C28_BothAtLowThreshold ==
    /\ GanglionsUpToDate
    /\ \E p \in Positions(ganglions.shape) :
          ganglions.on_cells[p].center_threshold = Rat(1, 5) /\ BothRespond(p)

\* the oriented layer reads both sub-layers and asks for more than half of
\* the on-region, the center-surround cells for more than half of the center
BothAboveHalf ==
    /\ pvc.input_sublayer_type = "both"
    /\ \A type_ \in PVCTypes : \A p \in Positions(pvc.shape) :
          RGt(pvc.cells[type_][p].on_region_threshold, Half)
    /\ \A p \in Positions(ganglions.shape) :
          /\ RGt(ganglions.on_cells[p].center_threshold, Half)
          /\ RGt(ganglions.off_cells[p].center_threshold, Half)

\* C29: in a pipeline whose center-surround layer has center_threshold > 1/2
\* and whose oriented layer runs in 'both' mode with on_region_threshold >
\* 1/2, every oriented cell of every orientation has response 0 at all
\* times, whatever the frames and the policies
C29_BothModeSilent ==
    (eye.raised = "none" /\ BothAboveHalf) =>
        \A type_ \in PVCTypes : \A p \in Positions(pvc.shape) :
            pvc.cells[type_][p].response = 0

\* under the policy tg and on_region_threshold thr an oriented cell has run
\* twice: its test passes on the on-center sub-layer and fails on the
\* off-center one
OneBranchPasses(tg, thr) ==
    /\ eye.raised = "none" /\ BothAboveHalf /\ pc.phase = "finish" /\ eye.n_iter = 1
    /\ \E type_ \in PVCTypes :
          LET c == pvc.cells[type_][<<0, 0>>]
          IN  /\ c.regions_tolerance = tg /\ c.on_region_threshold = thr
              /\ c.n_iter = 2
              /\ PVCTest(c, ganglions.on_cells)
              /\ ~PVCTest(c, ganglions.off_cells)
              /\ c.response = 0

\* the elliptical policy, the most lenient of the three, with
\* on_region_threshold 3/4
C29_Witness == OneBranchPasses("elliptical", Rat(3, 4))
C29_UnderLinear == OneBranchPasses("linear", Rat(3, 4))
C29_UnderConstant == OneBranchPasses("constant", Rat(3, 4))
\* the default on_region_threshold 1.0, which the constant policy alone passes
C29_AtDefaultThreshold == OneBranchPasses("constant", One)

\* with on_region_threshold 1/3 an oriented cell in 'both' mode responds 1
C29_RespondsAtLowThreshold ==
    /\ eye.raised = "none" /\ pvc.input_sublayer_type = "both"
    /\ pvc.cells["vertical"][<<0, 0>>].on_region_threshold = Rat(1, 3)
    /\ \E type_ \in PVCTypes : pvc.cells[type_][<<0, 0>>].response = 1

====
